---- MODULE Spec2Model ----
(***************************************************************************)
(* Payment-callback reconciliation of erina-integrater.                    *)
(*                                                                         *)
(* Two callback handlers exist in the repository:                          *)
(*   "gql"  : src/unnamed/part_000 (GraphQL client, mark-paid + tags)      *)
(*   "rest" : src/app/routes/app/shopifyAdminToken.server.js:303 (REST)    *)
(* Every await of a handler is one step of the model; the code between two *)
(* awaits runs atomically (single-threaded event loop).                    *)
(***************************************************************************)
EXTENDS Integers, Sequences, FiniteSets, TLC

\* ------------------------------------------------------------------ bounds
NumInv == 2          \* handler invocations that may be in flight together
MaxDeliveries == 2   \* callback deliveries in one behaviour
MaxHooks == 1        \* ORDERS_FULFILLED deliveries in one behaviour
MaxRedirectsBound == 3   \* largest maxRedirects passed to postJsonWithRedirects
MaxAmountLen == 4        \* longest amount spelled out of AmountAlphabet
MaxLinkDeliveries == 2   \* order-created deliveries in one behaviour
MaxTags == 3             \* tags on an order before tagOrder is applied
MaxApplications == 2     \* applications of tagOrder to one order
NumCallers == 2          \* calls of getAdminAccessToken in flight at once
MaxTokenRequests == 2    \* token requests in one behaviour
MaxTicks == 2            \* advances of the clock in one behaviour

\* --------------------------------------------------------------- constants
DefaultMaxRedirects == 3   \* maxRedirects = 3
SENT == "sent_to_postoffice"
PAIDTAG == "paid_procard"
RedirectStatuses == {301, 302, 303, 307, 308}

\* ------------------------------------------------------ sequence helpers
RECURSIVE Join(_)
\* concatenation of a sequence of one-character strings
Join(cs) == IF cs = <<>> THEN "" ELSE Head(cs) \o Join(Tail(cs))

Range(s) == {s[i] : i \in 1..Len(s)}

RECURSIVE Dedupe(_, _)
\* Array.from(new Set(xs)): first occurrences, in order
Dedupe(xs, seen) ==
    IF xs = <<>> THEN <<>>
    ELSE IF Head(xs) \in seen THEN Dedupe(Tail(xs), seen)
         ELSE <<Head(xs)>> \o Dedupe(Tail(xs), seen \cup {Head(xs)})

ArrayFromSet(xs) == Dedupe(xs, {})

\* ------------------------------------------------------- normalizeAmount
DigitChars == {"0", "1", "2", "3", "4", "5", "6", "7", "8", "9"}

\* position of the first "." of cs, or 0
DotPos(cs) ==
    IF \E i \in 1..Len(cs) : cs[i] = "."
    THEN CHOOSE i \in 1..Len(cs) : cs[i] = "." /\ \A j \in 1..(i-1) : cs[j] # "."
    ELSE 0

IntPart(cs) == IF DotPos(cs) = 0 THEN cs ELSE SubSeq(cs, 1, DotPos(cs) - 1)
FracPart(cs) == IF DotPos(cs) = 0 THEN <<>> ELSE SubSeq(cs, DotPos(cs) + 1, Len(cs))

\* a leading "-" and the characters after it
IsNegative(cs) == cs # <<>> /\ Head(cs) = "-"
Unsigned(cs) == IF IsNegative(cs) THEN Tail(cs) ELSE cs

\* Number(x) is finite for a decimal literal: an optional "-", digits, at
\* most one ".", at least one digit.  The empty string converts to 0.
IsDecimalLiteral(cs) ==
    /\ Range(IntPart(Unsigned(cs))) \subseteq DigitChars
    /\ Range(FracPart(Unsigned(cs))) \subseteq DigitChars
    /\ (cs = <<>> \/ Len(IntPart(Unsigned(cs))) + Len(FracPart(Unsigned(cs))) > 0)

RECURSIVE StripLeadingZeros(_)
StripLeadingZeros(cs) ==
    IF cs # <<>> /\ Head(cs) = "0" THEN StripLeadingZeros(Tail(cs)) ELSE cs

RECURSIVE StripTrailingZeros(_)
StripTrailingZeros(cs) ==
    IF cs # <<>> /\ cs[Len(cs)] = "0"
    THEN StripTrailingZeros(SubSeq(cs, 1, Len(cs) - 1)) ELSE cs

\* n.toString() of the parsed decimal, character by character: shortest
\* form, no padding, "-" only for a number below zero
NumberToChars(cs) ==
    LET ip == StripLeadingZeros(IntPart(Unsigned(cs)))
        fp == StripTrailingZeros(FracPart(Unsigned(cs)))
    IN  (IF IsNegative(cs) /\ (ip # <<>> \/ fp # <<>>) THEN <<"-">> ELSE <<>>)
        \o (IF ip = <<>> THEN <<"0">> ELSE ip)
        \o (IF fp = <<>> THEN <<>> ELSE <<".">> \o fp)

NumberToString(cs) == Join(NumberToChars(cs))

\* normalizeAmount returning the amount as it was written whenever it is
\* a finite number
normalizeAmountChars_AsWritten(amount) ==
    IF ~IsDecimalLiteral(amount) \/ amount = <<>> THEN <<"0">> ELSE amount

\* normalizeAmount, character by character
normalizeAmountChars(amount) ==
    IF ~IsDecimalLiteral(amount) THEN <<"0">> ELSE NumberToChars(amount)

\* amount: a sequence of characters (the JSON number or string as written)
normalizeAmount(amount) == Join(normalizeAmountChars(amount))

\* ------------------------------------------------ verifyCallbackSignature
\* HMAC-SHA-512 hex digest, modelled as an injective keyed function
Hmac(secret, msg) == "hmac[" \o secret \o "](" \o msg \o ")"

SigningString(body) ==
    body.merchantAccount \o ";" \o body.orderReference \o ";"
        \o normalizeAmount(body.amount) \o ";" \o body.currency

\* verifyCallbackSignature without the test for empty fields
verifyCallbackSignature_NoEmptyTest(body, secret) ==
    IF secret = "" THEN "throw"
    ELSE IF Hmac(secret, SigningString(body)) = body.merchantSignature
         THEN "true" ELSE "false"

\* verifyCallbackSignature without the final comparison
verifyCallbackSignature_NoCompare(body, secret) ==
    IF secret = "" THEN "throw"
    ELSE IF body.merchantAccount = "" \/ body.orderReference = ""
            \/ body.currency = "" \/ body.merchantSignature = ""
         THEN "false"
         ELSE "true"

\* verifyCallbackSignature testing the secret after the empty fields
verifyCallbackSignature_LateSecret(body, secret) ==
    IF body.merchantAccount = "" \/ body.orderReference = ""
       \/ body.currency = "" \/ body.merchantSignature = ""
    THEN "false"
    ELSE IF secret = "" THEN "throw"
         ELSE IF Hmac(secret, SigningString(body)) = body.merchantSignature
              THEN "true" ELSE "false"

\* result: "throw" (Missing PROCARD_SECRET), "true" or "false"
verifyCallbackSignature(body, secret) ==
    IF secret = "" THEN "throw"
    ELSE IF body.merchantAccount = "" \/ body.orderReference = ""
            \/ body.currency = "" \/ body.merchantSignature = ""
         THEN "false"
         ELSE IF Hmac(secret, SigningString(body)) = body.merchantSignature
              THEN "true" ELSE "false"

\* --------------------------------------------------- postJsonWithRedirects
\* A response of the shipping collaborator: status 0 stands for a transport
\* error (fetch rejects).
Responses ==
    {[status |-> 200, location |-> FALSE],
     [status |-> 302, location |-> TRUE],
     [status |-> 302, location |-> FALSE],
     [status |-> 500, location |-> FALSE],
     [status |-> 0,   location |-> FALSE]}

RECURSIVE PostLoop(_, _, _)
\* srv[k] is the server's answer to the k-th request.  Result: the
\* returned response ("throw" for a rejected fetch or for the statement
\* after the loop) and the number of requests issued.
PostLoop(srv, attempt, maxRedirects) ==
    IF attempt > maxRedirects
    THEN [outcome |-> "tooMany", status |-> 0, requests |-> attempt]
    ELSE LET res == srv[attempt + 1] IN
         IF res.status = 0
         THEN [outcome |-> "throw", status |-> 0, requests |-> attempt + 1]
         ELSE IF res.status \in RedirectStatuses
              THEN IF ~res.location
                   THEN [outcome |-> "return", status |-> res.status,
                         requests |-> attempt + 1]
                   ELSE IF attempt = maxRedirects
                        THEN [outcome |-> "return", status |-> res.status,
                              requests |-> attempt + 1]
                        ELSE PostLoop(srv, attempt + 1, maxRedirects)
              ELSE [outcome |-> "return", status |-> res.status,
                    requests |-> attempt + 1]

postJsonWithRedirects(srv, maxRedirects) == PostLoop(srv, 0, maxRedirects)

ResOk(status) == status \in 200..299

ServerBehaviours == [1..(DefaultMaxRedirects + 1) -> Responses]

\* what sendToPostOffice can get back from postJsonWithRedirects
PostResults == {postJsonWithRedirects(srv, DefaultMaxRedirects) : srv \in ServerBehaviours}

\* ================================================================ state
VARIABLES
    env,          \* process.env: PROCARD_SECRET, POSTOFFICE_BASE_URL/TOKEN
    order,        \* the store's order #1001 as the order platform holds it
    inv,          \* the handler invocations in flight
    last,         \* the invocation that answered most recently
    deliveries,   \* callbacks delivered so far
    shipped2xx,   \* shipping submissions for the order answered 2xx
    completed200, \* a verified Approved delivery for the order got 200
    hook,         \* the ORDERS_FULFILLED webhook handler (part_001)
    post,         \* one call of postJsonWithRedirects, request by request
    ver,          \* verifyCallbackSignature applied to a body, then to an
                  \* altered copy of it
    amt,          \* normalizeAmount applied to an amount, to its own
                  \* result, and to another spelling of the same number
    link,         \* the order-created handler: its configuration, the
                  \* order it works on and its current invocation
    tagop,        \* tagOrder applied to an order, and applied again
    tok           \* the access-token cache, the clock and the calls of
                  \* getAdminAccessToken

\* the variables of the parts examined on their own
pureVars == <<ver, amt, link, tagop, tok>>

vars ==
    <<env, order, inv, last, deliveries, shipped2xx, completed200, hook, post,
      pureVars>>

Procs == 1..NumInv
OrderRef == "1001"        \* the order that exists
Variants == {"gql", "rest"}

NoCalls ==
    [session |-> 0, lookup |-> 0, markPaid |-> 0, fullFetch |-> 0,
     shipSubmit |-> 0, tagRead |-> 0, tagWrite |-> 0]

NoInput == [kind |-> "none", sigMatch |-> FALSE, refEmpty |-> FALSE,
            fieldEmpty |-> FALSE, approved |-> FALSE]

\* what a delivery knows of the invocation that ended just before it
NoPrev ==
    [seen |-> FALSE, status |-> 0, markOk |-> FALSE, shipSubmit |-> 0,
     got2xx |-> FALSE, tagWrite |-> 0]

\* the status recorded for an invocation that stopped without a Response
NoAnswer == -1

Idle ==
    [pc |-> "idle", variant |-> "gql", in |-> NoInput, verified |-> "skipped",
     status |-> 0, ref |-> "", lookup |-> "none", full |-> "none",
     tags |-> <<>>,
     alreadyPaid |-> FALSE, alreadySent |-> FALSE, stage |-> "none",
     redelivery |-> FALSE, markOk |-> FALSE, got2xx |-> FALSE,
     wroteSentinels |-> FALSE, tagsAtEnd |-> <<>>, calls |-> NoCalls,
     alone |-> FALSE, prev |-> NoPrev]

\* ---------------------------------------------------------- callback bodies
FieldSets ==
    [merchantAccount : {"", "M1"},
     orderReference : {"", OrderRef, "9999"},
     amount : {<<"4", "9", ".", "9">>, <<"4", "9", ".", "9", "0">>},
     currency : {"", "EUR"},
     transactionStatus : {"Approved", "Declined"}]

WithSignature(f, sig) ==
    [merchantAccount |-> f.merchantAccount, orderReference |-> f.orderReference,
     amount |-> f.amount, currency |-> f.currency,
     transactionStatus |-> f.transactionStatus, merchantSignature |-> sig,
     kind |-> "object"]

\* the signatures a sender may attach: none, or the HMAC of the canonical
\* fields under the shared secret, or under another key
SignaturesFor(f) ==
    {"", Hmac("k1", SigningString(f)), Hmac("k2", SigningString(f))}

\* request.json() rejects ("invalid"), or yields null, or yields an object
Bodies ==
    {[kind |-> k, merchantAccount |-> "", orderReference |-> "", amount |-> <<>>,
      currency |-> "", transactionStatus |-> "", merchantSignature |-> ""] :
        k \in {"invalid", "null"}}
    \cup UNION {{WithSignature(f, s) : s \in SignaturesFor(f)} : f \in FieldSets}

\* what the claims need to know about a body, recorded with the invocation
Summary(body, secret) ==
    [kind |-> body.kind,
     sigMatch |-> body.kind = "object"
                  /\ body.merchantSignature = Hmac(secret, SigningString(body)),
     refEmpty |-> body.orderReference = "",
     fieldEmpty |-> (body.merchantAccount = "" \/ body.currency = ""
                     \/ body.merchantSignature = ""),
     approved |-> body.transactionStatus = "Approved"]

Secrets == {"", "k1"}     \* PROCARD_SECRET unset, or set

\* ------------------------------ postJsonWithRedirects, request by request
\* a URL is an origin and a path; a Location header value is absolute, or
\* an absolute path, or a relative reference, or the header is absent
Url(origin, path) == [origin |-> origin, path |-> path]

NoLocation == [kind |-> "none", origin |-> "", path |-> <<>>]

Locations ==
    {[kind |-> "abs", origin |-> "https://alt.example", path |-> <<"in">>],
     [kind |-> "root", origin |-> "", path |-> <<"v2", "bulk">>],
     [kind |-> "rel", origin |-> "", path |-> <<"next">>]}

\* new URL(location, currentUrl): a relative reference replaces the last
\* segment of the base path
ResolveUrl(location, base) ==
    CASE location.kind = "abs"  -> Url(location.origin, location.path)
      [] location.kind = "root" -> Url(base.origin, location.path)
      [] location.kind = "rel"  ->
            Url(base.origin,
                SubSeq(base.path, 1, Len(base.path) - 1) \o location.path)

\* what one fetch can yield: a response with its status and Location
\* header, or (status 0) a rejection
WireResponses ==
    [status : {200, 304, 500, 303, 307}, location : Locations \cup {NoLocation}]
    \cup {[status |-> 0, location |-> NoLocation]}

NoResponse == [status |-> -1, location |-> NoLocation]

PostIdle ==
    [pc |-> "idle", url |-> Url("", <<>>), headers |-> "", body |-> "",
     maxRedirects |-> 0, currentUrl |-> Url("", <<>>), attempt |-> 0,
     log |-> <<>>, resps |-> <<>>, result |-> NoResponse]

\* the call postJsonWithRedirects(url, {headers, body, maxRedirects})
PostCall(url, headers, body, maxRedirects) ==
    [PostIdle EXCEPT !.pc = "loop", !.url = url, !.headers = headers,
                     !.body = body, !.maxRedirects = maxRedirects,
                     !.currentUrl = url]

PostInputs ==
    {PostCall(Url("https://po.example", <<"api", "bulk-insert">>), h, b, m) :
        h \in {"Bearer t1", "Bearer t2"}, b \in {"[{A}]", "[{B}]"},
        m \in 0..MaxRedirectsBound}

\* the request as a client following redirects itself would send it: GET
\* without a body after a 303
RequestOf_Follow(p) ==
    IF p.resps # <<>> /\ p.resps[Len(p.resps)].status = 303
    THEN [method |-> "GET", redirect |-> "manual", url |-> p.currentUrl,
          headers |-> p.headers, body |-> ""]
    ELSE [method |-> "POST", redirect |-> "manual", url |-> p.currentUrl,
          headers |-> p.headers, body |-> p.body]

\* the fetch of part_000:139-144
RequestOf(p) ==
    [method |-> "POST", redirect |-> "manual", url |-> p.currentUrl,
     headers |-> p.headers, body |-> p.body]

Returned(p, res) == [p EXCEPT !.pc = "returned", !.result = res]

\* the redirect branch testing the attempt after the last one
OnRedirect_LateBound(p, res) ==
    IF res.location = NoLocation THEN Returned(p, res)
    ELSE LET p2 == [p EXCEPT !.currentUrl = ResolveUrl(res.location, @)] IN
         IF p.attempt = p.maxRedirects + 1 THEN Returned(p2, res)
         ELSE [p2 EXCEPT !.attempt = @ + 1]

\* the redirect branch without the test of the last attempt
OnRedirect_NoBound(p, res) ==
    IF res.location = NoLocation THEN Returned(p, res)
    ELSE [p EXCEPT !.currentUrl = ResolveUrl(res.location, @),
                   !.attempt = @ + 1]

\* the redirect branch asking the same URL again when Location is absent
OnRedirect_RetryNoLocation(p, res) ==
    IF res.location = NoLocation
    THEN IF p.attempt = p.maxRedirects THEN Returned(p, res)
         ELSE [p EXCEPT !.attempt = @ + 1]
    ELSE LET p2 == [p EXCEPT !.currentUrl = ResolveUrl(res.location, @)] IN
         IF p.attempt = p.maxRedirects THEN Returned(p2, res)
         ELSE [p2 EXCEPT !.attempt = @ + 1]

\* the redirect branch, part_000:146-150
OnRedirect(p, res) ==
    IF res.location = NoLocation THEN Returned(p, res)
    ELSE LET p2 == [p EXCEPT !.currentUrl = ResolveUrl(res.location, @)] IN
         IF p.attempt = p.maxRedirects THEN Returned(p2, res)
         ELSE [p2 EXCEPT !.attempt = @ + 1]

\* the webhook handler before its first delivery: deliveries so far, the
\* status answered, submissions issued, whether one was answered 2xx,
\* whether the order carried the sentinel when it was submitted, and the
\* handler's reads and writes of the order's tags
HookIdle ==
    [pc |-> "idle", n |-> 0, status |-> 0, submits |-> 0, got2xx |-> FALSE,
     sentinelAtSubmit |-> FALSE, tagReads |-> 0, tagWrites |-> 0]

\* ------------------------- verifyCallbackSignature examined on its own
\* the amounts a callback may carry, as written
AmountInputs ==
    {<<"4", "9", ".", "9">>, <<"4", "9", ".", "9", "0">>, <<"1", "5", "0", "0">>,
     <<"0">>, <<>>, <<"a", "b", "c">>}

SigFields ==
    [merchantAccount : {"", "M1", "M2"},
     orderReference : {"", OrderRef, "9999"},
     amount : AmountInputs,
     currency : {"", "EUR", "USD"},
     transactionStatus : {"Approved"}]

SigIdle ==
    [pc |-> "idle", secret |-> "", body |-> WithSignature(
                [merchantAccount |-> "", orderReference |-> "",
                 amount |-> <<>>, currency |-> "",
                 transactionStatus |-> ""], ""),
     result |-> "none", field |-> "none", altered |-> WithSignature(
                [merchantAccount |-> "", orderReference |-> "",
                 amount |-> <<>>, currency |-> "",
                 transactionStatus |-> ""], ""),
     result2 |-> "none"]

\* a configured secret, and a body signed by its sender with that secret,
\* with another key, or not at all
SigInputs ==
    UNION {{[SigIdle EXCEPT !.pc = "call", !.secret = k,
                            !.body = WithSignature(f, s)] :
               s \in SignaturesFor(f), k \in {"k1", "k2"}} : f \in SigFields}

\* ----------------------------------- normalizeAmount examined on its own
AmountAlphabet == {"0", "1", ".", "-"}

\* every amount of up to MaxAmountLen characters, and the amounts above
AmountStrings ==
    UNION {[1..n -> AmountAlphabet] : n \in 0..MaxAmountLen}
    \cup AmountInputs \cup {<<"1", "5", "0", "0", ".", "0", "0">>}

DigitValue(c) ==
    CASE c = "0" -> 0 [] c = "1" -> 1 [] c = "2" -> 2 [] c = "3" -> 3
      [] c = "4" -> 4 [] c = "5" -> 5 [] c = "6" -> 6 [] c = "7" -> 7
      [] c = "8" -> 8 [] c = "9" -> 9

RECURSIVE DigitsValue(_, _)
\* the integer written by the digits ds, after the digits already read
DigitsValue(ds, acc) ==
    IF ds = <<>> THEN acc
    ELSE DigitsValue(Tail(ds), 10 * acc + DigitValue(Head(ds)))

RECURSIVE Pow10(_)
Pow10(n) == IF n = 0 THEN 1 ELSE 10 * Pow10(n - 1)

\* digits kept after the point when two numbers are compared
FracDigits == 7

\* Number(x) of a decimal literal: its sign, its integer part and its
\* fraction in units of 10^-FracDigits; -0 equals 0
NumberOf(cs) ==
    LET ip == DigitsValue(IntPart(Unsigned(cs)), 0)
        fd == FracPart(Unsigned(cs))
        fp == DigitsValue(fd, 0) * Pow10(FracDigits - Len(fd))
    IN  [neg |-> IsNegative(cs) /\ (ip # 0 \/ fp # 0), int |-> ip, frac |-> fp]

AmtIdle ==
    [pc |-> "idle", x |-> <<>>, once |-> <<>>, twice |-> <<>>, y |-> <<>>,
     yOnce |-> <<>>]

\* --------------------------------------------- payment-link issuance
LINK == "procard_link_sent"
URLNOTE == "procard_payment_url"

UrlKeys ==
    {"PROCARD_CALLBACK_URL", "PROCARD_APPROVE_URL", "PROCARD_DECLINE_URL",
     "PROCARD_CANCEL_URL"}

ConfigKeys ==
    {"PROCARD_SECRET", "PROCARD_DISPATCHER_URL", "PROCARD_MERCHANT_ID"}
    \cup UrlKeys

\* the three copies of the handler: webhooks.orders_create.procard.js
\* (order update and invoice over REST), part_002 (GraphQL order update,
\* mail through SendGrid), shopifyAdminToken.server.js:339-531 (GraphQL
\* order update and invoice)
LinkVariants == {"restInvoice", "sendgrid", "gqlInvoice"}

\* String(x).toLowerCase() of the gateway names in use
ToLowerCase(name) ==
    CASE name = "Manual" -> "manual"
      [] name = "Pay by Card (Email)" -> "pay by card (email)"
      [] OTHER -> name

GatewayLists ==
    {<<>>, <<"shopify_payments">>, <<"Manual">>, <<"Pay by Card (Email)">>,
     <<"shopify_payments", "manual">>}

AllowList(variant) ==
    IF variant = "restInvoice"
    THEN {"manual", "pay by card (email)", "pay by card"}
    ELSE {"manual"}

\* isManualPayment accepting every order
isManualPayment_Any(variant, gateways) == TRUE

isManualPayment(variant, gateways) ==
    \E k \in 1..Len(gateways) : ToLowerCase(gateways[k]) \in AllowList(variant)

LinkEvents ==
    [topic : {"ORDERS_CREATE", "ORDERS_UPDATED"}, gateways : GatewayLists,
     hasEmail : BOOLEAN]

NoEvent == [topic |-> "", gateways |-> <<>>, hasEmail |-> FALSE]

\* what the dispatcher request can yield: the fetch rejects, or a response
\* with its ok flag, and the result and url of its JSON body
DispatcherResponses ==
    {[transport |-> "reject", result |-> "absent", url |-> ""],
     [transport |-> "non2xx", result |-> "absent", url |-> ""],
     [transport |-> "non2xx", result |-> "zero", url |-> "https://pay.example/a"],
     [transport |-> "2xx", result |-> "absent", url |-> ""],
     [transport |-> "2xx", result |-> "nonzero", url |-> "https://pay.example/a"],
     [transport |-> "2xx", result |-> "zero", url |-> ""],
     [transport |-> "2xx", result |-> "zero", url |-> "https://pay.example/a"],
     [transport |-> "2xx", result |-> "zero", url |-> "https://pay.example/b"]}

NoLinkCalls == [dispatcher |-> 0, orderRead |-> 0, orderWrite |-> 0, email |-> 0]

NoteSets ==
    {<<>>, <<[name |-> "gift", value |-> "yes"]>>,
     <<[name |-> URLNOTE, value |-> "https://pay.example/old"],
       [name |-> "gift", value |-> "yes"]>>}

OrderStates ==
    [tags : {<<>>, <<"vip">>, <<LINK>>, <<"vip", LINK>>}, notes : NoteSets]

NoOrder == [tags |-> <<>>, notes |-> <<>>]

\* missing: the configuration values that are not set; order: the order
\* as the platform holds it; n: deliveries so far; the other fields belong
\* to the current invocation (read: the order as updateOrder read it;
\* before: the order just before it was written; hadTag: the order carried
\* procard_link_sent when the event arrived)
LinkIdle ==
    [pc |-> "idle", missing |-> {}, variant |-> "restInvoice", order |-> NoOrder,
     n |-> 0, authOk |-> FALSE, ev |-> NoEvent, hadTag |-> FALSE,
     status |-> 0, body |-> "", threw |-> "", calls |-> NoLinkCalls,
     dispatch |-> "none", url |-> "", read |-> NoOrder, before |-> NoOrder,
     persisted |-> FALSE, persistFailed |-> FALSE, emailOutcome |-> "none"]

\* at most one configuration value missing, or the secret and another one
MissingSets ==
    {{}} \cup {{k} : k \in ConfigKeys}
    \cup {{"PROCARD_SECRET", "PROCARD_CANCEL_URL"}}

LinkInputs ==
    {[LinkIdle EXCEPT !.pc = "ready", !.missing = m, !.variant = v, !.order = o] :
        m \in MissingSets, v \in LinkVariants, o \in OrderStates}

\* ------------------------------------------------------------ tagOrder
\* a tags string is a sequence of pieces: a comma, a blank, or a word
TagWords == {"vip", "gift wrap", PAIDTAG, SENT}

RECURSIVE JoinTags(_)
\* tags.join(", ")
JoinTags(ts) ==
    IF ts = <<>> THEN <<>>
    ELSE IF Len(ts) = 1 THEN <<Head(ts)>>
    ELSE <<Head(ts), ",", " ">> \o JoinTags(Tail(ts))

RECURSIVE SplitComma(_)
\* str.split(","): the pieces between the commas; one empty segment for
\* the empty string
SplitComma(str) ==
    IF \A k \in 1..Len(str) : str[k] # "," THEN <<str>>
    ELSE LET i == CHOOSE k \in 1..Len(str) :
                    str[k] = "," /\ \A j \in 1..(k - 1) : str[j] # ","
         IN <<SubSeq(str, 1, i - 1)>> \o SplitComma(SubSeq(str, i + 1, Len(str)))

RECURSIVE TrimStart(_)
TrimStart(seg) ==
    IF seg = <<>> \/ Head(seg) # " " THEN seg ELSE TrimStart(Tail(seg))

RECURSIVE TrimEnd(_)
TrimEnd(seg) ==
    IF seg = <<>> \/ seg[Len(seg)] # " " THEN seg
    ELSE TrimEnd(SubSeq(seg, 1, Len(seg) - 1))

\* t.trim(), as a string
Trim(seg) == Join(TrimEnd(TrimStart(seg)))

\* str.split(",").map((t) => t.trim())
SplitTrim(str) ==
    LET segs == SplitComma(str) IN [k \in 1..Len(segs) |-> Trim(segs[k])]

\* tagOrder's next tags without the Set
tagOrderNextTags_NoSet(str, extraTags) ==
    SelectSeq(SplitTrim(str), LAMBDA t : t # "") \o extraTags

\* Array.from(new Set([...tags.split(",").map(trim).filter(Boolean),
\* ...extraTags]))
tagOrderNextTags(str, extraTags) ==
    ArrayFromSet(SelectSeq(SplitTrim(str), LAMBDA t : t # "") \o extraTags)

RECURSIVE SeqsOver(_, _)
\* the sequences without repetition of at most n elements of S
SeqsOver(S, n) ==
    IF n = 0 THEN {<<>>}
    ELSE LET shorter == SeqsOver(S, n - 1)
         IN shorter \cup {ts \o <<t>> : ts \in shorter, t \in S}

TagLists ==
    {ts \in SeqsOver(TagWords, MaxTags) : Cardinality(Range(ts)) = Len(ts)}

\* the extraTags the callers pass (shopifyAdminToken.server.js:320, :328)
ExtraTagLists == {<<PAIDTAG>>, <<SENT>>}

\* tags: the order's tags string on the platform; had: its tags as a
\* list before the current application; n: applications so far; prev: the
\* extraTags and the tags string at the end of the application before
TagIdle ==
    [pc |-> "idle", tags |-> <<>>, had |-> <<>>, extra |-> <<>>,
     read |-> <<>>, returned |-> <<>>, n |-> 0,
     prev |-> [extra |-> <<>>, tags |-> <<>>]]

TagInputs ==
    {[TagIdle EXCEPT !.pc = "ready", !.tags = JoinTags(ts), !.had = ts] :
        ts \in TagLists}

\* ------------------------------------------------ getAdminAccessToken
\* the two copies: shopifyAdminToken.server.js:1-37 caches for 23 hours;
\* webhooks.orders_create.procard.js:8-50 caches for the expires_in of the
\* response, less a buffer of 60 seconds at the test.  Times are in
\* seconds since the process started.
TokenVariants == {"fixed", "expiresIn"}

Callers == 1..NumCallers

FixedLifetime == 23 * 60 * 60
DefaultLifetime == 3600
BufferSeconds == 60

\* how far the clock advances in one step
Durations == {30, DefaultLifetime, FixedLifetime}

\* Number(json.expires_in) that is not finite
NotFinite == -1

\* a token request: the fetch rejects, or a response with its ok flag,
\* with or without access_token, and its expires_in
TokenResponses ==
    {[kind |-> "reject", ok |-> FALSE, hasToken |-> FALSE, expiresIn |-> NotFinite]}
    \cup [kind : {"response"}, ok : BOOLEAN, hasToken : {FALSE},
          expiresIn : {NotFinite}]
    \cup [kind : {"response"}, ok : BOOLEAN, hasToken : {TRUE},
          expiresIn : {NotFinite, 30, 90, 86400}]

NoCache == [token |-> 0, expiresAt |-> 0]

\* now: Date.now() at the start of the call; saw: the cache at that
\* moment; reqId: the token the request made by this call would return;
\* cacheAfter: the cache as this call left it
CallIdle ==
    [pc |-> "idle", now |-> 0, saw |-> NoCache, requests |-> 0, reqId |-> 0,
     outcome |-> "none", returned |-> 0, expiresIn |-> NotFinite,
     cacheAfter |-> NoCache]

\* cache: cachedToken (0 for null) and cachedTokenExpiresAt
TokIdle ==
    [variant |-> "fixed", envOk |-> TRUE, now |-> 0, ticks |-> 0,
     cache |-> NoCache, issued |-> 0, call |-> [i \in Callers |-> CallIdle]]

\* the store domain and the credentials are set or not (tested by the
\* expires_in copy only, :16-18)
TokInputs ==
    {[TokIdle EXCEPT !.variant = v, !.envOk = e] :
        v \in TokenVariants, e \in BOOLEAN} \ {[TokIdle EXCEPT !.envOk = FALSE]}

\* the cache test looking at the token alone
IsFresh_NoExpiry(variant, cache, now) == cache.token # 0

\* cachedToken && now < cachedTokenExpiresAt (:8), or
\* _cachedToken && now < _cachedTokenExpMs - 60_000 (:22)
IsFresh(variant, cache, now) ==
    /\ cache.token # 0
    /\ now < cache.expiresAt - (IF variant = "expiresIn" THEN BufferSeconds ELSE 0)

\* the expiry cached with a new token (:34; :45-47)
NewExpiry(variant, now, expiresIn) ==
    IF variant = "fixed" THEN now + FixedLifetime
    ELSE now + (IF expiresIn = NotFinite THEN DefaultLifetime ELSE expiresIn)

\* the parts examined on their own are not in use
PureIdle ==
    /\ ver = SigIdle /\ amt = AmtIdle /\ link = LinkIdle /\ tagop = TagIdle
    /\ tok = TokIdle

Init ==
    /\ env \in [secret : Secrets, postoffice : BOOLEAN]
    /\ order \in [paid : BOOLEAN, tags : {<<>>, <<"vip">>}, complete : BOOLEAN]
    /\ inv = [i \in Procs |-> Idle]
    /\ last = Idle
    /\ deliveries = 0
    /\ shipped2xx = 0
    /\ completed200 = FALSE
    /\ hook = HookIdle
    /\ post = PostIdle
    /\ PureIdle

\* the handler returns a Response (status 0: the exception left the
\* handler); tagsAtEnd records the order's tags at that moment
Respond(i, r, st) ==
    /\ last' = [r EXCEPT !.pc = "done", !.status = st, !.tagsAtEnd = order'.tags]
    /\ inv' = [inv EXCEPT ![i] = Idle]
    /\ completed200' = (completed200 \/ (st = 200 /\ r.lookup = "order"))
    /\ UNCHANGED <<hook, post, pureVars>>

Continue(i, r) ==
    /\ inv' = [inv EXCEPT ![i] = r]
    /\ UNCHANGED <<last, completed200, hook, post, pureVars>>

Bump(r, f) == [r EXCEPT !.calls[f] = @ + 1]

\* the count of 2xx submissions, kept up to the most that the bounded
\* deliveries can produce
CountUp(n) == IF n < MaxDeliveries + MaxHooks THEN n + 1 ELSE n

\* the status filter accepting every status
IsApproved_Any(status) == TRUE

IsApproved(status) == status = "Approved"

\* action, up to its first collaborator call:
\*   part_000:294-309  and  shopifyAdminToken.server.js:303-317
\* The result has pc "done" and the status answered, or pc "go".
Entry(body, secret) ==
    LET r0 == [Idle EXCEPT !.in = Summary(body, secret),
                           !.ref = body.orderReference, !.pc = "done"]
    IN
    IF body.kind # "object" THEN [r0 EXCEPT !.status = 400]
    ELSE LET v == verifyCallbackSignature(body, secret)
             r1 == [r0 EXCEPT !.verified = v]
         IN
         IF v = "throw" THEN [r1 EXCEPT !.status = 0]
         ELSE IF v = "false" THEN [r1 EXCEPT !.status = 401]
         ELSE IF body.orderReference = "" THEN [r1 EXCEPT !.status = 400]
         ELSE IF ~IsApproved(body.transactionStatus) THEN [r1 EXCEPT !.status = 200]
         ELSE [r1 EXCEPT !.pc = "go"]

\* the handler's entry applied to every body, per configured secret
Entries == [s \in Secrets |-> {Entry(b, s) : b \in Bodies}]

\* first pc after the synchronous prefix
FirstStep(variant) == IF variant = "gql" THEN "session" ELSE "find"

\* the previous invocation as seen by a delivery of the same callback to
\* the handler of part_000: it ran with no other invocation in flight and
\* had found the order
PrevOf(l, variant) ==
    IF /\ l.pc = "done" /\ l.alone /\ l.lookup = "order"
       /\ l.variant = "gql" /\ variant = "gql"
    THEN [seen |-> TRUE, status |-> l.status, markOk |-> l.markOk,
          shipSubmit |-> l.calls.shipSubmit, got2xx |-> l.got2xx,
          tagWrite |-> l.calls.tagWrite]
    ELSE NoPrev

\* a callback is delivered to a free invocation slot; the invocations in
\* flight are no longer alone once another one starts its calls
Receive(i, variant, e) ==
    /\ inv[i].pc = "idle"
    /\ \A j \in 1..(i - 1) : inv[j].pc # "idle"   \* slots are interchangeable
    /\ deliveries < MaxDeliveries
    /\ deliveries' = deliveries + 1
    /\ UNCHANGED <<env, order, shipped2xx>>
    /\ LET free == \A j \in Procs : inv[j].pc = "idle"
           r == [e EXCEPT !.variant = variant,
                          !.redelivery = (completed200 /\ order.paid
                                          /\ SENT \in Range(order.tags))]
           others == [j \in Procs |->
                        IF inv[j].pc = "idle" THEN inv[j]
                        ELSE [inv[j] EXCEPT !.alone = FALSE]]
       IN IF e.pc = "done" THEN Respond(i, r, e.status)
          ELSE /\ inv' = [others EXCEPT ![i] =
                            [r EXCEPT !.pc = FirstStep(variant),
                                      !.alone = free,
                                      !.prev = IF free /\ e.ref = OrderRef
                                               THEN PrevOf(last, variant)
                                               ELSE NoPrev]]
               /\ UNCHANGED <<last, completed200, hook, post, pureVars>>

\* the process stops while an invocation waits on a call: no Response is
\* returned and nothing further is called
Crash(i) ==
    /\ inv[i].pc # "idle"
    /\ UNCHANGED <<env, order, deliveries, shipped2xx>>
    /\ Respond(i, inv[i], NoAnswer)

\* ------------------------------------------------- handler of part_000
\* getOfflineAdminGraphqlClient: throws when SHOP_DOMAIN or the offline
\* session is missing
getOfflineAdminGraphqlClient(i) ==
    /\ inv[i].pc = "session"
    /\ UNCHANGED <<env, order, deliveries, shipped2xx>>
    /\ LET r == Bump(inv[i], "session") IN
       \E ok \in BOOLEAN :
          IF ok THEN Continue(i, [r EXCEPT !.pc = "lookup"])
          ELSE Respond(i, r, 502)

\* the shipping step as a mutually exclusive section: entered only while no
\* other invocation is inside it
ShippingStepOrOk_Exclusive(i, r) ==
    IF /\ ~r.alreadySent
       /\ \A j \in Procs \ {i} : inv[j].pc \notin {"fetchFull", "ship", "tagWrite"}
    THEN Continue(i, [r EXCEPT !.pc = "fetchFull"])
    ELSE Respond(i, r, 200)

\* the shipping step entered whatever the tags say
ShippingStepOrOk_NoGate(i, r) == Continue(i, [r EXCEPT !.pc = "fetchFull"])

\* the shipping step (part_000:323) or the final answer (part_000:334)
ShippingStepOrOk(i, r) ==
    IF ~r.alreadySent THEN Continue(i, [r EXCEPT !.pc = "fetchFull"])
    ELSE Respond(i, r, 200)

\* the lookup without the "Order not found" answer: reading the tags of
\* no order throws inside the try block
findOrderByOrderNumber_NoNotFound(i) ==
    /\ inv[i].pc = "lookup"
    /\ UNCHANGED <<env, order, deliveries, shipped2xx>>
    /\ LET r == Bump(inv[i], "lookup") IN
       \E ok \in BOOLEAN :
          IF ~ok THEN Respond(i, [r EXCEPT !.lookup = "threw"], 502)
          ELSE IF r.ref # OrderRef THEN Respond(i, [r EXCEPT !.lookup = "null"], 502)
          ELSE LET r1 == [r EXCEPT !.lookup = "order",
                                   !.tags = order.tags,
                                   !.alreadySent = SENT \in Range(order.tags),
                                   !.alreadyPaid = order.paid]
               IN IF ~r1.alreadyPaid
                  THEN Continue(i, [r1 EXCEPT !.pc = "markPaid"])
                  ELSE ShippingStepOrOk(i, r1)

\* the lookup going on to the shipping step without the mark-paid step
findOrderByOrderNumber_NoMarkPaid(i) ==
    /\ inv[i].pc = "lookup"
    /\ UNCHANGED <<env, order, deliveries, shipped2xx>>
    /\ LET r == Bump(inv[i], "lookup") IN
       \E ok \in BOOLEAN :
          IF ~ok THEN Respond(i, [r EXCEPT !.lookup = "threw"], 502)
          ELSE IF r.ref # OrderRef THEN Respond(i, [r EXCEPT !.lookup = "null"], 404)
          ELSE LET r1 == [r EXCEPT !.lookup = "order",
                                   !.tags = order.tags,
                                   !.alreadySent = SENT \in Range(order.tags),
                                   !.alreadyPaid = order.paid]
               IN ShippingStepOrOk(i, r1)

\* findOrderByOrderNumber and the synchronous code after it, up to the
\* next await (part_000:311-319)
findOrderByOrderNumber(i) ==
    /\ inv[i].pc = "lookup"
    /\ UNCHANGED <<env, order, deliveries, shipped2xx>>
    /\ LET r == Bump(inv[i], "lookup") IN
       \E ok \in BOOLEAN :
          IF ~ok THEN Respond(i, [r EXCEPT !.lookup = "threw"], 502)
          ELSE IF r.ref # OrderRef THEN Respond(i, [r EXCEPT !.lookup = "null"], 404)
          ELSE LET r1 == [r EXCEPT !.lookup = "order",
                                   !.tags = order.tags,
                                   !.alreadySent = SENT \in Range(order.tags),
                                   !.alreadyPaid = order.paid]
               IN IF ~r1.alreadyPaid
                  THEN Continue(i, [r1 EXCEPT !.pc = "markPaid"])
                  ELSE ShippingStepOrOk(i, r1)

\* orderMarkAsPaid with its error swallowed by the caller
orderMarkAsPaid_Swallow(i) ==
    /\ inv[i].pc = "markPaid"
    /\ UNCHANGED <<env, deliveries, shipped2xx>>
    /\ LET r == Bump(inv[i], "markPaid") IN
       \E ok \in BOOLEAN :
          IF ok
          THEN /\ order' = [order EXCEPT !.paid = TRUE]
               /\ ShippingStepOrOk(i, [r EXCEPT !.markOk = TRUE])
          ELSE /\ UNCHANGED order
               /\ ShippingStepOrOk(i, r)

\* orderMarkAsPaid: throws on userErrors or a failed request
orderMarkAsPaid(i) ==
    /\ inv[i].pc = "markPaid"
    /\ UNCHANGED <<env, deliveries, shipped2xx>>
    /\ LET r == Bump(inv[i], "markPaid") IN
       \E ok \in BOOLEAN :
          IF ok
          THEN /\ order' = [order EXCEPT !.paid = TRUE]
               /\ ShippingStepOrOk(i, [r EXCEPT !.markOk = TRUE])
          ELSE /\ UNCHANGED order
               /\ Respond(i, r, 502)

\* pc after the full order was fetched and after it was submitted
AfterShip(variant) == IF variant = "gql" THEN "tagWrite" ELSE "tagRead"

\* fetchFullOrderJSONByGid (part_000) / shopifyRest GET (rest handler, :324):
\* throws, or yields no order, or yields the order
fetchFullOrderJSONByGid(i) ==
    /\ inv[i].pc = "fetchFull"
    /\ UNCHANGED <<env, order, deliveries, shipped2xx>>
    /\ LET r == Bump(inv[i], "fullFetch") IN
       \E out \in {"throw", "null", "order"} :
          CASE out = "throw" -> Respond(i, r, 502)
            [] out = "null"  -> Respond(i, [r EXCEPT !.full = "null"], 200)
            [] out = "order" -> Continue(i, [r EXCEPT !.pc = "ship",
                                                      !.full = "order"])

\* sendToPostOffice without the res.ok test: whatever response the post
\* returns is taken as a success
sendToPostOffice_NoOkCheck(i) ==
    /\ inv[i].pc = "ship"
    /\ UNCHANGED <<env, order, deliveries>>
    /\ LET r == inv[i]
           next == [r EXCEPT !.pc = AfterShip(r.variant), !.stage = "sent"]
       IN
       IF ~env.postoffice
       THEN /\ Respond(i, r, 502)
            /\ UNCHANGED shipped2xx
       ELSE IF ~order.complete
       THEN /\ Continue(i, next)
            /\ UNCHANGED shipped2xx
       ELSE \E res \in PostResults :
               LET r1 == Bump(r, "shipSubmit")
               IN
               IF res.outcome = "return" /\ ResOk(res.status)
               THEN /\ shipped2xx' = CountUp(shipped2xx)
                    /\ Continue(i, [r1 EXCEPT !.pc = AfterShip(r.variant),
                                              !.stage = "sent",
                                              !.got2xx = TRUE])
               ELSE /\ UNCHANGED shipped2xx
                    /\ IF res.outcome = "return"
                       THEN Continue(i, [r1 EXCEPT !.pc = AfterShip(r.variant),
                                                   !.stage = "sent"])
                       ELSE Respond(i, r1, 502)

\* sendToPostOffice: throws without configuration, returns without a
\* request when a shipping field is missing, else posts and throws unless
\* the response is 2xx
sendToPostOffice(i) ==
    /\ inv[i].pc = "ship"
    /\ UNCHANGED <<env, order, deliveries>>
    /\ LET r == inv[i]
           next == [r EXCEPT !.pc = AfterShip(r.variant), !.stage = "sent"]
       IN
       IF ~env.postoffice
       THEN /\ Respond(i, r, 502)
            /\ UNCHANGED shipped2xx
       ELSE IF ~order.complete
       THEN /\ Continue(i, next)
            /\ UNCHANGED shipped2xx
       ELSE \E res \in PostResults :
               LET r1 == Bump(r, "shipSubmit")
               IN
               IF res.outcome = "return" /\ ResOk(res.status)
               THEN /\ shipped2xx' = CountUp(shipped2xx)
                    /\ Continue(i, [r1 EXCEPT !.pc = AfterShip(r.variant),
                                              !.stage = "sent",
                                              !.got2xx = TRUE])
               ELSE /\ UNCHANGED shipped2xx
                    /\ Respond(i, r1, 502)

\* the tags written by part_000:327-330
NextTags(tags) == ArrayFromSet(tags \o <<SENT, PAIDTAG>>)

\* orderUpdateTags with its userErrors ignored
orderUpdateTags_Swallow(i) ==
    /\ inv[i].pc = "tagWrite"
    /\ inv[i].variant = "gql"
    /\ UNCHANGED <<env, deliveries, shipped2xx>>
    /\ LET r == Bump(inv[i], "tagWrite") IN
       \E ok \in BOOLEAN :
          IF ok
          THEN /\ order' = [order EXCEPT !.tags = NextTags(r.tags)]
               /\ Respond(i, [r EXCEPT !.wroteSentinels = TRUE], 200)
          ELSE /\ UNCHANGED order
               /\ Respond(i, r, 200)

\* orderUpdateTags: replaces the order's tags; throws on userErrors
orderUpdateTags(i) ==
    /\ inv[i].pc = "tagWrite"
    /\ inv[i].variant = "gql"
    /\ UNCHANGED <<env, deliveries, shipped2xx>>
    /\ LET r == Bump(inv[i], "tagWrite") IN
       \E ok \in BOOLEAN :
          IF ok
          THEN /\ order' = [order EXCEPT !.tags = NextTags(r.tags)]
               /\ Respond(i, [r EXCEPT !.wroteSentinels = TRUE], 200)
          ELSE /\ UNCHANGED order
               /\ Respond(i, r, 502)


\* ------------------------------- handler of shopifyAdminToken.server.js
\* findOrderByOrderNumber (rest): both requests are caught, a failure
\* yields no order
findOrderRest(i) ==
    /\ inv[i].pc = "find"
    /\ UNCHANGED <<env, order, deliveries, shipped2xx>>
    /\ LET r == Bump(inv[i], "lookup") IN
       \E ok \in BOOLEAN :
          IF ~ok \/ r.ref # OrderRef
          THEN Respond(i, [r EXCEPT !.lookup = "null"], 404)
          ELSE Continue(i, [r EXCEPT !.lookup = "order", !.pc = "tagRead",
                                     !.stage = "paid"])

ExtraTags(stage) == IF stage = "paid" THEN <<PAIDTAG>> ELSE <<SENT>>

\* the union computed by tagOrder (:113-122)
UnionTags(current, extraTags) ==
    ArrayFromSet(SelectSeq(current, LAMBDA t : t # "") \o extraTags)

\* tagOrder, first half: GET the order's current tags (:112)
tagOrderRead(i) ==
    /\ inv[i].pc = "tagRead"
    /\ inv[i].variant = "rest"
    /\ UNCHANGED <<env, order, deliveries, shipped2xx>>
    /\ LET r == Bump(inv[i], "tagRead") IN
       \E ok \in BOOLEAN :
          IF ok THEN Continue(i, [r EXCEPT !.pc = "tagWrite",
                                           !.tags = order.tags])
          ELSE Respond(i, r, 502)

\* tagOrder, second half: PUT the union (:124-129), then the handler's
\* code up to its next await (:322-323, :332)
tagOrderWrite(i) ==
    /\ inv[i].pc = "tagWrite"
    /\ inv[i].variant = "rest"
    /\ UNCHANGED <<env, deliveries, shipped2xx>>
    /\ LET r == Bump(inv[i], "tagWrite")
           nextTags == UnionTags(r.tags, ExtraTags(r.stage))
       IN
       \E ok \in BOOLEAN :
          IF ~ok THEN UNCHANGED order /\ Respond(i, r, 502)
          ELSE /\ order' = [order EXCEPT !.tags = nextTags]
               /\ IF r.stage = "paid"
                  THEN LET r1 == [r EXCEPT !.tags = nextTags,
                                           !.alreadySent = SENT \in Range(nextTags)]
                       IN ShippingStepOrOk(i, r1)
                  ELSE Respond(i, [r EXCEPT !.tags = nextTags,
                                            !.wroteSentinels = TRUE], 200)

\* ------------------------------------------------------------ behaviours
Next ==
    \/ \E i \in Procs, v \in Variants, e \in Entries[env.secret] : Receive(i, v, e)
    \/ \E i \in Procs : getOfflineAdminGraphqlClient(i)
    \/ \E i \in Procs : findOrderByOrderNumber(i)
    \/ \E i \in Procs : orderMarkAsPaid(i)
    \/ \E i \in Procs : fetchFullOrderJSONByGid(i)
    \/ \E i \in Procs : sendToPostOffice(i)
    \/ \E i \in Procs : orderUpdateTags(i)
    \/ \E i \in Procs : findOrderRest(i)
    \/ \E i \in Procs : tagOrderRead(i)
    \/ \E i \in Procs : tagOrderWrite(i)

Spec == Init /\ [][Next]_vars

\* the callback handlers on a host that may stop at any await
NextCrash == Next \/ \E i \in Procs : Crash(i)

SpecCrash == Init /\ [][NextCrash]_vars

\* ------------------------------------------ ORDERS_FULFILLED (part_001)
Topics == {"ORDERS_FULFILLED", "ORDERS_CREATE"}

\* action of part_001 up to its await of postJsonWithRedirects (:86-197):
\* authenticate.webhook rejects, or the topic is another one, or the
\* configuration or a shipping field is missing, or the body is built
ordersFulfilled(topic, authOk) ==
    /\ hook.pc # "post"
    /\ hook.n < MaxHooks
    /\ UNCHANGED <<env, order, inv, last, deliveries, shipped2xx, completed200,
                   post, pureVars>>
    /\ LET h == [HookIdle EXCEPT !.n = hook.n + 1, !.pc = "done"] IN
       hook' = IF ~authOk THEN [h EXCEPT !.status = 0]
               ELSE IF topic # "ORDERS_FULFILLED" THEN [h EXCEPT !.status = 200]
               ELSE IF ~env.postoffice THEN [h EXCEPT !.status = 500]
               ELSE IF ~order.complete THEN [h EXCEPT !.status = 200]
               ELSE [h EXCEPT !.pc = "post"]

\* the submission and the answer (part_001:197-221): no tag of the order
\* is read before it and none is written after it
ordersFulfilledPost ==
    /\ hook.pc = "post"
    /\ UNCHANGED <<env, order, inv, last, deliveries, completed200, post,
                   pureVars>>
    /\ \E res \in PostResults :
          LET h == [hook EXCEPT !.pc = "done", !.submits = @ + 1,
                                !.sentinelAtSubmit = SENT \in Range(order.tags)]
          IN
          IF res.outcome = "return" /\ ResOk(res.status)
          THEN /\ shipped2xx' = CountUp(shipped2xx)
               /\ hook' = [h EXCEPT !.status = 200, !.got2xx = TRUE]
          ELSE /\ UNCHANGED shipped2xx
               /\ hook' = [h EXCEPT !.status = 502]

NextHooks ==
    \/ Next
    \/ \E topic \in Topics, authOk \in BOOLEAN : ordersFulfilled(topic, authOk)
    \/ ordersFulfilledPost

\* the callback handlers together with the webhook handler
SpecHooks == Init /\ [][NextHooks]_vars

\* --------------------------------- redelivery until the answer is 200
\* the verified Approved callback for the order, as the handler's entry
\* leaves it
ApprovedEntries ==
    [s \in Secrets |-> {e \in Entries[s] : e.pc = "go" /\ e.ref = OrderRef}]

\* the payment provider delivers the callback to the handler of part_000,
\* and delivers it again whenever the previous answer was not 200
Redeliver(e) ==
    /\ \A j \in Procs : inv[j].pc = "idle"
    /\ last.pc = "idle" \/ last.status # 200
    /\ inv' = [inv EXCEPT ![1] = [e EXCEPT !.variant = "gql",
                                          !.pc = FirstStep("gql"),
                                          !.alone = TRUE,
                                          !.prev = PrevOf(last, "gql")]]
    /\ UNCHANGED <<env, order, last, deliveries, shipped2xx, completed200,
                   hook, post, pureVars>>

\* the step did not end the invocation with a failure
Succeeds == inv'[1].pc # "idle" \/ last'.status = 200

InitLive ==
    /\ env = [secret |-> "k1", postoffice |-> TRUE]
    /\ order \in [paid : BOOLEAN, tags : {<<>>, <<"vip">>}, complete : BOOLEAN]
    /\ inv = [i \in Procs |-> Idle]
    /\ last = Idle
    /\ deliveries = 0
    /\ shipped2xx = 0
    /\ completed200 = FALSE
    /\ hook = HookIdle
    /\ post = PostIdle
    /\ PureIdle

NextLive ==
    \/ \E e \in ApprovedEntries[env.secret] : Redeliver(e)
    \/ getOfflineAdminGraphqlClient(1)
    \/ findOrderByOrderNumber(1)
    \/ orderMarkAsPaid(1)
    \/ fetchFullOrderJSONByGid(1)
    \/ sendToPostOffice(1)
    \/ orderUpdateTags(1)

\* every delivery answered other than 200 is delivered again, and every
\* collaborator call that keeps being made succeeds at some time
FairLive ==
    /\ WF_vars(\E e \in ApprovedEntries[env.secret] : Redeliver(e))
    /\ SF_vars(getOfflineAdminGraphqlClient(1) /\ Succeeds)
    /\ SF_vars(findOrderByOrderNumber(1) /\ Succeeds)
    /\ SF_vars(orderMarkAsPaid(1) /\ Succeeds)
    /\ SF_vars(fetchFullOrderJSONByGid(1) /\ Succeeds)
    /\ SF_vars(sendToPostOffice(1) /\ Succeeds)
    /\ SF_vars(orderUpdateTags(1) /\ Succeeds)

SpecLive == InitLive /\ [][NextLive]_vars /\ FairLive

\* --------------------------------------- verifyCallbackSignature alone
\* no callback, webhook or shipping call is going on
Quiet ==
    /\ env = [secret |-> "k1", postoffice |-> TRUE]
    /\ order = [paid |-> FALSE, tags |-> <<>>, complete |-> TRUE]
    /\ inv = [i \in Procs |-> Idle]
    /\ last = Idle
    /\ deliveries = 0
    /\ shipped2xx = 0
    /\ completed200 = FALSE
    /\ hook = HookIdle
    /\ post = PostIdle

quietVars ==
    <<env, order, inv, last, deliveries, shipped2xx, completed200, hook, post>>

\* verifyCallbackSignature(body) under process.env.PROCARD_SECRET
verifyBody ==
    /\ ver.pc = "call"
    /\ ver' = [ver EXCEPT !.pc = "verified",
                          !.result = verifyCallbackSignature(ver.body, ver.secret)]
    /\ UNCHANGED <<quietVars, amt, link, tagop, tok>>

\* the body with one signed field replaced by another value and the
\* signature kept
Altered(body, field, value) ==
    CASE field = "merchantAccount" -> [body EXCEPT !.merchantAccount = value]
      [] field = "orderReference"  -> [body EXCEPT !.orderReference = value]
      [] field = "amount"          -> [body EXCEPT !.amount = value]
      [] field = "currency"        -> [body EXCEPT !.currency = value]

\* every way of changing the value of one signed field
Alterations ==
    {[field |-> "merchantAccount", value |-> v] : v \in {"", "M1", "M2"}}
    \cup {[field |-> "orderReference", value |-> v] : v \in {"", OrderRef, "9999"}}
    \cup {[field |-> "amount", value |-> v] : v \in AmountInputs}
    \cup {[field |-> "currency", value |-> v] : v \in {"", "EUR", "USD"}}

\* verifyCallbackSignature applied to the altered body
verifyAltered(a) ==
    /\ ver.pc = "verified"
    /\ Altered(ver.body, a.field, a.value) # ver.body
    /\ LET b == Altered(ver.body, a.field, a.value) IN
       ver' = [ver EXCEPT !.pc = "altered", !.field = a.field, !.altered = b,
                          !.result2 = verifyCallbackSignature(b, ver.secret)]
    /\ UNCHANGED <<quietVars, amt, link, tagop, tok>>

InitSig ==
    /\ Quiet
    /\ ver \in SigInputs
    /\ amt = AmtIdle /\ link = LinkIdle /\ tagop = TagIdle /\ tok = TokIdle

NextSig == verifyBody \/ \E a \in Alterations : verifyAltered(a)

SpecSig == InitSig /\ [][NextSig]_vars

\* ----------------------------------------------- normalizeAmount alone
\* normalizeAmount(x)
normalizeOnce ==
    /\ amt.pc = "call"
    /\ amt' = [amt EXCEPT !.pc = "once", !.once = normalizeAmountChars(amt.x)]
    /\ UNCHANGED <<quietVars, ver, link, tagop, tok>>

\* normalizeAmount(normalizeAmount(x))
normalizeTwice ==
    /\ amt.pc = "once"
    /\ amt' = [amt EXCEPT !.pc = "twice",
                          !.twice = normalizeAmountChars(amt.once)]
    /\ UNCHANGED <<quietVars, ver, link, tagop, tok>>

\* normalizeAmount(y) for another spelling y of the number that x spells
normalizeEqual(y) ==
    /\ amt.pc = "twice"
    /\ y # amt.x
    /\ IsDecimalLiteral(amt.x) /\ IsDecimalLiteral(y)
    /\ NumberOf(y) = NumberOf(amt.x)
    /\ amt' = [amt EXCEPT !.pc = "equal", !.y = y,
                          !.yOnce = normalizeAmountChars(y)]
    /\ UNCHANGED <<quietVars, ver, link, tagop, tok>>

InitAmount ==
    /\ Quiet
    /\ ver = SigIdle /\ link = LinkIdle /\ tagop = TagIdle /\ tok = TokIdle
    /\ amt \in {[AmtIdle EXCEPT !.pc = "call", !.x = x] : x \in AmountStrings}

NextAmount ==
    \/ normalizeOnce
    \/ normalizeTwice
    \/ \E y \in AmountStrings : normalizeEqual(y)

SpecAmount == InitAmount /\ [][NextAmount]_vars

\* ------------------------------------------- the order-created handler
\* the handler returns a Response (status 0: an exception left the handler)
Answer(l, st, body) == [l EXCEPT !.pc = "done", !.status = st, !.body = body]

\* the configuration tests without the test of the four URLs
ConfigStatus_NoUrlTest(missing) ==
    IF "PROCARD_DISPATCHER_URL" \in missing THEN "Missing PROCARD_DISPATCHER_URL"
    ELSE IF "PROCARD_MERCHANT_ID" \in missing THEN "Missing PROCARD_MERCHANT_ID"
    ELSE ""

\* the configuration tests of webhooks.orders_create.procard.js:181-205:
\* the body of the 500 answer, or "" when nothing tested is missing
ConfigStatus(missing) ==
    IF "PROCARD_DISPATCHER_URL" \in missing THEN "Missing PROCARD_DISPATCHER_URL"
    ELSE IF "PROCARD_MERCHANT_ID" \in missing THEN "Missing PROCARD_MERCHANT_ID"
    ELSE IF UrlKeys \cap missing # {} THEN "Missing PROCARD_*_URL env vars"
    ELSE ""

\* action up to its await of the dispatcher request (:172-243):
\* authenticate.webhook, the topic and gateway tests, the configuration
\* tests, and makeRequestSignature, which throws outside the try block
orderCreated(ev, authOk) ==
    /\ link.pc \in {"ready", "done"}
    /\ link.n < MaxLinkDeliveries
    /\ authOk \/ ev = NoEvent
    /\ ~authOk \/ ev \in LinkEvents
    /\ LET l == [LinkIdle EXCEPT !.missing = link.missing,
                                 !.variant = link.variant,
                                 !.order = link.order,
                                 !.n = link.n + 1,
                                 !.authOk = authOk, !.ev = ev,
                                 !.hadTag = LINK \in Range(link.order.tags)]
       IN link' =
            IF ~authOk THEN Answer([l EXCEPT !.threw = "authenticate"], 0, "")
            ELSE IF ev.topic # "ORDERS_CREATE" THEN Answer(l, 200, "")
            ELSE IF ~isManualPayment(l.variant, ev.gateways) THEN Answer(l, 200, "")
            ELSE IF ConfigStatus(l.missing) # ""
                 THEN Answer(l, 500, ConfigStatus(l.missing))
            ELSE IF "PROCARD_SECRET" \in l.missing
                 THEN Answer([l EXCEPT !.threw = "Missing PROCARD_SECRET"], 0, "")
            ELSE [l EXCEPT !.pc = "dispatch"]
    /\ UNCHANGED <<quietVars, ver, amt, tagop, tok>>

\* the dispatcher request and the tests of its response (:245-262;
\* part_002:183-197; shopifyAdminToken.server.js:505-513)
dispatch(res) ==
    /\ link.pc = "dispatch"
    /\ LET l == [link EXCEPT !.calls.dispatcher = @ + 1] IN
       link' =
         IF res.transport = "reject"
         THEN Answer([l EXCEPT !.dispatch = "reject"], 502,
                     "Create payment link failed")
         ELSE IF res.transport = "non2xx"
         THEN Answer([l EXCEPT !.dispatch = "non2xx"], 502, "Dispatcher error")
         ELSE IF res.result # "zero" \/ res.url = ""
         THEN IF l.variant = "restInvoice"
              THEN Answer([l EXCEPT !.dispatch = "rejected"], 200, "OK")
              ELSE Answer([l EXCEPT !.dispatch = "rejected"], 502,
                          "Bad dispatcher response")
         ELSE [l EXCEPT !.dispatch = "ok", !.url = res.url,
                        !.pc = IF l.variant = "restInvoice" THEN "read"
                               ELSE "persist"]
    /\ UNCHANGED <<quietVars, ver, amt, tagop, tok>>

\* the order update failing and the email sent all the same
PersistFailed_Swallowed(l) ==
    [l EXCEPT !.persistFailed = TRUE, !.pc = "email"]

\* the order update threw: the catch block answers 502
PersistFailed(l) ==
    Answer([l EXCEPT !.persistFailed = TRUE], 502, "Create payment link failed")

\* updateOrder, first half: GET the order (:129-130)
updateOrderRead(ok) ==
    /\ link.pc = "read"
    /\ LET l == [link EXCEPT !.calls.orderRead = @ + 1] IN
       link' = IF ~ok THEN PersistFailed(l)
               ELSE [l EXCEPT !.read = link.order, !.pc = "write"]
    /\ UNCHANGED <<quietVars, ver, amt, tagop, tok>>

\* the tags and note attributes PUT by updateOrder (:132-151)
UpdatedOrder(read, url) ==
    [tags |-> ArrayFromSet(SelectSeq(read.tags, LAMBDA t : t # "") \o <<LINK>>),
     notes |-> SelectSeq(read.notes, LAMBDA a : a.name # URLNOTE)
               \o <<[name |-> URLNOTE, value |-> url]>>]

\* updateOrder, second half: PUT tags and note attributes (:153-162)
updateOrderWrite(ok) ==
    /\ link.pc = "write"
    /\ LET l == [link EXCEPT !.calls.orderWrite = @ + 1] IN
       link' = IF ~ok THEN PersistFailed(l)
               ELSE [l EXCEPT !.before = link.order,
                              !.order = UpdatedOrder(l.read, l.url),
                              !.persisted = TRUE, !.pc = "email"]
    /\ UNCHANGED <<quietVars, ver, amt, tagop, tok>>

\* the input of the orderUpdate mutation (part_002:61-67;
\* shopifyAdminToken.server.js:401-407): the tags and note attributes given
\* replace the order's
ReplacedOrder(url) ==
    [tags |-> <<LINK>>, notes |-> <<[name |-> URLNOTE, value |-> url]>>]

\* addTagAndNoteAttribute, and the test of payload.email after it in
\* part_002:203
addTagAndNoteAttribute(ok) ==
    /\ link.pc = "persist"
    /\ LET l == [link EXCEPT !.calls.orderWrite = @ + 1] IN
       link' = IF ~ok THEN PersistFailed(l)
               ELSE LET l1 == [l EXCEPT !.before = link.order,
                                        !.order = ReplacedOrder(l.url),
                                        !.persisted = TRUE]
                    IN IF l.variant = "sendgrid" /\ ~l.ev.hasEmail
                       THEN Answer(l1, 200, "")
                       ELSE [l1 EXCEPT !.pc = "email"]
    /\ UNCHANGED <<quietVars, ver, amt, tagop, tok>>

\* sendInvoiceEmail (REST or GraphQL: throws on failure) or
\* sendEmailWithLink (part_002:80-115: skipped without SendGrid
\* configuration, a non-2xx answer only logged, a rejected fetch thrown)
sendEmail(out) ==
    /\ link.pc = "email"
    /\ out = "unconfigured" => link.variant = "sendgrid"
    /\ LET l == [link EXCEPT !.calls.email = @ + 1] IN
       link' =
         IF out = "unconfigured"
         THEN Answer([link EXCEPT !.emailOutcome = "skipped"], 200, "")
         ELSE IF out = "sent" THEN Answer([l EXCEPT !.emailOutcome = "sent"], 200, "")
         ELSE IF out = "non2xx" /\ l.variant = "sendgrid"
              THEN Answer([l EXCEPT !.emailOutcome = "failed"], 200, "")
         ELSE Answer([l EXCEPT !.emailOutcome = "failed"], 502,
                     "Create payment link failed")
    /\ UNCHANGED <<quietVars, ver, amt, tagop, tok>>

InitLink ==
    /\ Quiet
    /\ ver = SigIdle /\ amt = AmtIdle /\ tagop = TagIdle /\ tok = TokIdle
    /\ link \in LinkInputs

NextLink ==
    \/ \E ev \in LinkEvents \cup {NoEvent}, authOk \in BOOLEAN : orderCreated(ev, authOk)
    \/ \E res \in DispatcherResponses : dispatch(res)
    \/ \E ok \in BOOLEAN : updateOrderRead(ok)
    \/ \E ok \in BOOLEAN : updateOrderWrite(ok)
    \/ \E ok \in BOOLEAN : addTagAndNoteAttribute(ok)
    \/ \E out \in {"sent", "non2xx", "rejected", "unconfigured"} : sendEmail(out)

SpecLink == InitLink /\ [][NextLink]_vars

\* ----------------------------------------------- tagOrder on its own
\* tagOrder up to its PUT: GET the order (shopifyRest throws on failure)
tagOrderGet(extraTags, ok) ==
    /\ tagop.pc \in {"ready", "done"}
    /\ tagop.n < MaxApplications
    /\ tagop' =
         IF ~ok THEN [tagop EXCEPT !.pc = "failed", !.extra = extraTags]
         ELSE [tagop EXCEPT !.pc = "put", !.extra = extraTags,
                            !.read = tagop.tags,
                            !.had = IF tagop.n = 0 THEN @
                                    ELSE SelectSeq(SplitTrim(tagop.tags),
                                                   LAMBDA t : t # ""),
                            !.returned = <<>>,
                            !.prev = [extra |-> tagop.extra, tags |-> tagop.tags]]
    /\ UNCHANGED <<quietVars, ver, amt, link, tok>>

\* tagOrder from its PUT to its return
tagOrderPut(ok) ==
    /\ tagop.pc = "put"
    /\ LET nextTags == JoinTags(tagOrderNextTags(tagop.read, tagop.extra)) IN
       tagop' =
         IF ~ok THEN [tagop EXCEPT !.pc = "failed"]
         ELSE [tagop EXCEPT !.pc = "done", !.tags = nextTags,
                            !.returned = SplitTrim(nextTags),
                            !.n = @ + 1]
    /\ UNCHANGED <<quietVars, ver, amt, link, tok>>

InitTag ==
    /\ Quiet
    /\ ver = SigIdle /\ amt = AmtIdle /\ link = LinkIdle /\ tok = TokIdle
    /\ tagop \in TagInputs

NextTag ==
    \/ \E extraTags \in ExtraTagLists, ok \in BOOLEAN : tagOrderGet(extraTags, ok)
    \/ \E ok \in BOOLEAN : tagOrderPut(ok)

SpecTag == InitTag /\ [][NextTag]_vars

\* ------------------------------------------ the access-token cache
\* the clock advances
Elapse(d) ==
    /\ tok.ticks < MaxTicks
    /\ tok' = [tok EXCEPT !.now = @ + d, !.ticks = @ + 1]
    /\ UNCHANGED <<quietVars, ver, amt, link, tagop>>

\* getAdminAccessToken up to its await of the token request: the
\* configuration test of the expires_in copy, the cache test, the request
getAdminAccessToken(i) ==
    /\ tok.call[i].pc \in {"idle", "done"}
    /\ \A j \in 1..(i - 1) : tok.call[j].pc = "fetch"
    /\ LET c == [CallIdle EXCEPT !.now = tok.now, !.saw = tok.cache] IN
       IF tok.variant = "expiresIn" /\ ~tok.envOk
       THEN tok' = [tok EXCEPT !.call[i] =
                       [c EXCEPT !.pc = "done", !.outcome = "threwConfig"]]
       ELSE IF IsFresh(tok.variant, tok.cache, tok.now)
       THEN tok' = [tok EXCEPT !.call[i] =
                       [c EXCEPT !.pc = "done", !.outcome = "cached",
                                 !.returned = tok.cache.token]]
       ELSE /\ tok.issued < MaxTokenRequests
            /\ tok' = [tok EXCEPT !.issued = @ + 1,
                                  !.call[i] =
                                     [c EXCEPT !.pc = "fetch", !.requests = 1,
                                               !.reqId = tok.issued + 1]]
    /\ UNCHANGED <<quietVars, ver, amt, link, tagop>>

\* getAdminAccessToken from the response of the token request on: throws
\* (the fetch rejected; no access_token; in the expires_in copy also
\* !res.ok), or caches the token with its expiry and returns it
accessTokenResponse(i, res) ==
    /\ tok.call[i].pc = "fetch"
    /\ LET c == tok.call[i]
           threw == \/ res.kind = "reject"
                    \/ ~res.hasToken
                    \/ tok.variant = "expiresIn" /\ ~res.ok
           cache == [token |-> c.reqId,
                     expiresAt |-> NewExpiry(tok.variant, c.now, res.expiresIn)]
       IN
       IF threw
       THEN tok' = [tok EXCEPT !.call[i] =
                       [c EXCEPT !.pc = "done", !.outcome = "threw"]]
       ELSE tok' = [tok EXCEPT !.cache = cache,
                              !.call[i] =
                                 [c EXCEPT !.pc = "done", !.outcome = "fetched",
                                           !.returned = c.reqId,
                                           !.expiresIn = res.expiresIn,
                                           !.cacheAfter = cache]]
    /\ UNCHANGED <<quietVars, ver, amt, link, tagop>>

InitToken ==
    /\ Quiet
    /\ ver = SigIdle /\ amt = AmtIdle /\ link = LinkIdle /\ tagop = TagIdle
    /\ tok \in TokInputs

NextToken ==
    \/ \E d \in Durations : Elapse(d)
    \/ \E i \in Callers : getAdminAccessToken(i)
    \/ \E i \in Callers, res \in TokenResponses : accessTokenResponse(i, res)

SpecToken == InitToken /\ [][NextToken]_vars

\* ------------------------------------- one call of postJsonWithRedirects
\* one turn of the loop of part_000:138-153, or the statement after it
postFetch(res) ==
    /\ post.pc = "loop"
    /\ UNCHANGED <<env, order, inv, last, deliveries, shipped2xx, completed200,
                   hook, pureVars>>
    /\ post' =
          IF post.attempt > post.maxRedirects
          THEN [post EXCEPT !.pc = "tooMany"]
          ELSE LET p1 == [post EXCEPT !.log = Append(@, RequestOf(post)),
                                      !.resps = Append(@, res)]
               IN IF res.status = 0 THEN [p1 EXCEPT !.pc = "threw"]
                  ELSE IF res.status \in RedirectStatuses THEN OnRedirect(p1, res)
                  ELSE Returned(p1, res)

InitPost ==
    /\ env = [secret |-> "k1", postoffice |-> TRUE]
    /\ order = [paid |-> FALSE, tags |-> <<>>, complete |-> TRUE]
    /\ inv = [i \in Procs |-> Idle]
    /\ last = Idle
    /\ deliveries = 0
    /\ shipped2xx = 0
    /\ completed200 = FALSE
    /\ hook = HookIdle
    /\ post \in PostInputs
    /\ PureIdle

NextPost == \E res \in WireResponses : postFetch(res)

\* postJsonWithRedirects applied to every input, against every server
SpecPost == InitPost /\ [][NextPost]_vars

\* ------------- the shipping step with postJsonWithRedirects step by step
\* the call of part_000:286-289: no maxRedirects is passed
ShipCall ==
    PostCall(Url("https://po.example", <<"api", "order", "bulk-insert">>),
             "Bearer t1", "[{A}]", DefaultMaxRedirects)

\* sendToPostOffice up to its await of postJsonWithRedirects (:200-289)
sendToPostOfficeCall(i) ==
    /\ inv[i].pc = "ship"
    /\ post.pc # "loop"
    /\ UNCHANGED <<env, order, deliveries, shipped2xx>>
    /\ LET r == inv[i] IN
       IF ~env.postoffice THEN Respond(i, r, 502)
       ELSE IF ~order.complete
       THEN Continue(i, [r EXCEPT !.pc = AfterShip(r.variant), !.stage = "sent"])
       ELSE /\ inv' = [inv EXCEPT ![i] =
                         [Bump(r, "shipSubmit") EXCEPT !.pc = "posting"]]
            /\ post' = ShipCall
            /\ UNCHANGED <<last, completed200, hook, pureVars>>

\* sendToPostOffice taking whatever response is returned as a success
sendToPostOfficeReturn_NoOkCheck(i) ==
    /\ inv[i].pc = "posting"
    /\ post.pc \in {"returned", "threw", "tooMany"}
    /\ UNCHANGED <<env, order, deliveries>>
    /\ LET r == inv[i] IN
       IF post.pc = "returned"
       THEN /\ shipped2xx' = CountUp(shipped2xx)
            /\ Continue(i, [r EXCEPT !.pc = AfterShip(r.variant),
                                     !.stage = "sent", !.got2xx = TRUE])
       ELSE /\ UNCHANGED shipped2xx
            /\ Respond(i, r, 502)

\* sendToPostOffice once postJsonWithRedirects has returned or thrown
\* (:291-300), and the handler's code up to its next await: the exception
\* of a response that is not ok, or of the call itself, reaches the catch
sendToPostOfficeReturn(i) ==
    /\ inv[i].pc = "posting"
    /\ post.pc \in {"returned", "threw", "tooMany"}
    /\ UNCHANGED <<env, order, deliveries>>
    /\ LET r == inv[i] IN
       IF post.pc = "returned" /\ ResOk(post.result.status)
       THEN /\ shipped2xx' = CountUp(shipped2xx)
            /\ Continue(i, [r EXCEPT !.pc = AfterShip(r.variant),
                                     !.stage = "sent", !.got2xx = TRUE])
       ELSE /\ UNCHANGED shipped2xx
            /\ Respond(i, r, 502)

InitShip ==
    /\ env = [secret |-> "k1", postoffice |-> TRUE]
    /\ order \in [paid : BOOLEAN, tags : {<<>>}, complete : BOOLEAN]
    /\ inv = [i \in Procs |-> Idle]
    /\ last = Idle
    /\ deliveries = 0
    /\ shipped2xx = 0
    /\ completed200 = FALSE
    /\ hook = HookIdle
    /\ post = PostIdle
    /\ PureIdle

NextShip ==
    \/ \E e \in ApprovedEntries[env.secret] : Receive(1, "gql", e)
    \/ getOfflineAdminGraphqlClient(1)
    \/ findOrderByOrderNumber(1)
    \/ orderMarkAsPaid(1)
    \/ fetchFullOrderJSONByGid(1)
    \/ sendToPostOfficeCall(1)
    \/ \E res \in WireResponses : postFetch(res)
    \/ sendToPostOfficeReturn(1)
    \/ orderUpdateTags(1)

\* the handler of part_000, one delivery at a time, against a shipping
\* service answering request by request
SpecShip == InitShip /\ [][NextShip]_vars

TypeOK ==
    /\ deliveries \in 0..MaxDeliveries
    /\ \A i \in Procs : inv[i].pc \in
          {"idle", "session", "lookup", "markPaid", "fetchFull", "ship",
           "tagWrite", "find", "tagRead"}
    /\ last.pc \in {"idle", "done"}

\* =============================================================== claims
Answered == last.pc = "done"
Verified == last.verified = "true"
SideEffectFree(c) == c.markPaid = 0 /\ c.shipSubmit = 0 /\ c.tagWrite = 0

\* C1: with the signing secret configured, a callback object whose
\* merchantSignature differs from the HMAC of its canonical fields is
\* answered 401 and the invocation makes no collaborator call.
C1_BadSignatureIs401 ==
    (Answered /\ env.secret # "" /\ last.in.kind = "object" /\ ~last.in.sigMatch)
        => (last.status = 401 /\ last.calls = NoCalls)

\* a callback with all fields present and a signature made with another key
C1_Witness ==
    /\ Answered /\ env.secret # "" /\ last.in.kind = "object"
    /\ ~last.in.sigMatch /\ ~last.in.fieldEmpty /\ ~last.in.refEmpty
    /\ last.status = 401

\* C2: a verified Approved callback handled by part_000, order located, not
\* paid, no sentinel tag, every collaborator call succeeding: mark-paid is
\* called once, one shipping submission gets 2xx, the order's tags contain
\* both sentinels and the answer is 200.
C2_ApprovedRunsBothSteps ==
    (/\ Answered /\ last.variant = "gql" /\ Verified /\ last.in.approved
     /\ last.lookup = "order" /\ ~last.alreadyPaid
     /\ ~last.alreadySent /\ PAIDTAG \notin Range(last.tags)
     /\ last.status \notin {502, NoAnswer} /\ last.full # "null")
        => (/\ last.calls.markPaid = 1
            /\ last.calls.shipSubmit = 1 /\ last.got2xx
            /\ {SENT, PAIDTAG} \subseteq Range(last.tagsAtEnd)
            /\ last.status = 200)

\* C3: a verified Approved callback delivered again after an earlier
\* delivery was answered 200, the order being paid and carrying
\* sent_to_postoffice, with no collaborator failing: no mark-paid, no
\* shipping submission, no tag write, answer 200.
C3_RedeliveryHasNoSideEffects ==
    (/\ Answered /\ last.redelivery /\ Verified /\ last.in.approved
     /\ last.lookup = "order" /\ last.status \notin {502, NoAnswer})
        => (SideEffectFree(last.calls) /\ last.status = 200)

\* C4: in the handler of part_000, when the tags read at lookup contain
\* sent_to_postoffice the invocation never fetches the full order, sends
\* nothing to the shipping collaborator and writes no tags.
ShippingSkipped(r) ==
    (r.variant = "gql" /\ r.lookup = "order" /\ r.alreadySent)
        => (r.calls.fullFetch = 0 /\ r.calls.shipSubmit = 0 /\ r.calls.tagWrite = 0
            /\ r.pc \notin {"fetchFull", "ship", "tagWrite"})

C4_SentinelSkipsShipping ==
    ShippingSkipped(last) /\ \A i \in Procs : ShippingSkipped(inv[i])

\* an invocation that found the sentinel, had to mark the order paid, and
\* answered 200
C4_Witness ==
    /\ Answered /\ last.variant = "gql" /\ last.lookup = "order"
    /\ last.alreadySent /\ last.markOk /\ last.status = 200

\* C5: an order carries sent_to_postoffice only if a shipping submission
\* for it was answered 2xx.
C5_SentinelImpliesShipped ==
    SENT \in Range(order.tags) => shipped2xx > 0

\* C6: when the handler of part_000 answers 200 to a verified Approved
\* callback whose order was located, the order is paid (already, or
\* mark-paid succeeded) and shipping is done (sentinel seen at lookup, or a
\* submission got 2xx and the sentinel tags were written).
C6_OkMeansReconciled ==
    (/\ Answered /\ last.variant = "gql" /\ Verified /\ last.in.approved
     /\ last.lookup = "order" /\ last.status = 200)
        => (/\ (last.alreadyPaid \/ last.markOk)
            /\ (last.alreadySent \/ (last.got2xx /\ last.wroteSentinels)))

\* C7: with the secret configured, a JSON object without orderReference is
\* answered 400, a body that is not JSON is answered 400, and 401 is
\* answered only when the signature differs from the HMAC.
C7_MissingReferenceIs400 ==
    (Answered /\ env.secret # "")
        => (/\ (last.in.kind = "object" /\ last.in.refEmpty => last.status = 400)
            /\ (last.in.kind = "invalid" => last.status = 400)
            /\ (last.status = 401 => ~last.in.sigMatch))

\* C8: without a signing secret, verification raises for every callback
\* object: no invocation answers 401, none gets past verification, and no
\* collaborator is called.
C8_NoSecretAborts ==
    env.secret = ""
        => (/\ \A i \in Procs : inv[i].pc = "idle"
            /\ Answered => (/\ last.status # 401
                            /\ last.calls = NoCalls
                            /\ (last.in.kind = "object"
                                  => last.verified = "throw" /\ last.status = 0)))

\* without a secret, a callback lacking a field (which would otherwise be
\* refused as an invalid signature) has raised
C8_Witness ==
    /\ env.secret = "" /\ Answered /\ last.in.kind = "object"
    /\ last.in.fieldEmpty /\ last.verified = "throw"

\* C9: a verified callback with an orderReference and a transactionStatus
\* other than "Approved" is answered 200 without any collaborator call.
C9_NotApprovedIsNoop ==
    /\ (Answered /\ Verified /\ ~last.in.refEmpty /\ ~last.in.approved)
          => (last.status = 200 /\ last.calls = NoCalls)
    /\ \A i \in Procs : inv[i].pc # "idle" => inv[i].in.approved

C9_Witness ==
    /\ Answered /\ Verified /\ ~last.in.refEmpty /\ ~last.in.approved
    /\ last.status = 200

\* C10: a verified Approved callback whose order-reference resolves to no
\* order is answered 404, with no mark-paid, no shipping submission, no
\* full-order fetch and no tag write.
C10_UnknownOrderIs404 ==
    (Answered /\ Verified /\ last.in.approved /\ last.lookup = "null")
        => (/\ last.status = 404
            /\ SideEffectFree(last.calls)
            /\ last.calls.fullFetch = 0 /\ last.calls.tagRead = 0)

\* the handler of part_000 looked up a reference that names no order
C10_Witness ==
    /\ Answered /\ Verified /\ last.in.approved /\ last.lookup = "null"
    /\ last.variant = "gql" /\ last.ref # OrderRef /\ last.calls.lookup = 1
    /\ last.status = 404

\* C11: in the handler of part_000, an invocation whose mark-paid call
\* failed answers 502 and has fetched nothing, submitted nothing to shipping
\* and written no tags; no invocation goes on after a failed mark-paid.
MarkPaidFailed(r) == r.variant = "gql" /\ r.calls.markPaid = 1 /\ ~r.markOk

C11_MarkPaidFailureIs502 ==
    /\ (Answered /\ MarkPaidFailed(last))
          => (/\ last.status = 502
              /\ last.calls.fullFetch = 0 /\ last.calls.shipSubmit = 0
              /\ last.calls.tagWrite = 0)
    /\ \A i \in Procs : ~MarkPaidFailed(inv[i])

\* mark-paid failed for an order still lacking the shipping sentinel
C11_Witness ==
    /\ Answered /\ MarkPaidFailed(last) /\ ~last.alreadySent
    /\ ~order.paid /\ last.status = 502

\* the invocations on record: the one that ended last and those in flight
Records == {last} \cup {inv[i] : i \in Procs}

\* the invocation has gone past the shipping step with the full order
PastShipping(r) ==
    /\ r.full = "order"
    /\ r.pc = "tagWrite" \/ (r.pc = "done" /\ r.status # NoAnswer)

\* the delivery that follows an invocation seen as prev, run on its own
\* up to now and past the order lookup
NextDelivery(r) == r.alone /\ r.prev.seen /\ r.lookup = "order"

\* C12: in the handler of part_000, an invocation whose shipping
\* submission ended in a non-2xx response or a transport error answers 502
\* without any tag write; the delivery after it reads the order without
\* the sentinel and, once past the shipping step, has submitted again.
ShipFailed(r) == r.variant = "gql" /\ r.calls.shipSubmit = 1 /\ ~r.got2xx

C12_ShippingFailureIsRetried ==
    /\ (Answered /\ ShipFailed(last))
          => (last.status = 502 /\ last.calls.tagWrite = 0
              /\ ~last.wroteSentinels)
    /\ \A i \in Procs : ~ShipFailed(inv[i])
    /\ \A r \in Records :
          (NextDelivery(r) /\ r.prev.shipSubmit = 1 /\ ~r.prev.got2xx)
             => (/\ ~r.alreadySent
                 /\ PastShipping(r) => r.calls.shipSubmit = 1)

\* the delivery after a failed submission submitted again and got a 2xx
C12_Witness ==
    /\ Answered /\ NextDelivery(last)
    /\ last.prev.shipSubmit = 1 /\ ~last.prev.got2xx /\ last.prev.status = 502
    /\ last.calls.shipSubmit = 1 /\ last.got2xx /\ last.status = 200

\* C13: the delivery after an invocation that stopped (502, or no answer
\* at all) with mark-paid done and shipping not done, once answered 200
\* with the full order in hand, has not called mark-paid and has made the
\* shipping submission and then written the sentinel tags.
StoppedBetween(p) ==
    p.seen /\ p.markOk /\ ~p.got2xx /\ p.status \in {502, NoAnswer}

C13_RetrySkipsMarkPaidAndShips ==
    (/\ Answered /\ NextDelivery(last) /\ StoppedBetween(last.prev)
     /\ last.status = 200 /\ last.full = "order")
        => (/\ last.calls.markPaid = 0
            /\ last.calls.shipSubmit = 1 /\ last.got2xx
            /\ last.wroteSentinels)

\* C16: in the handler of part_000, an invocation whose tag write failed
\* after a 2xx shipping submission answers 502 and, when it ran on its own,
\* leaves the order without sent_to_postoffice; the delivery after it reads
\* the order without the sentinel and, once past the shipping step, has
\* submitted again.
TagWriteFailed(r) ==
    r.variant = "gql" /\ r.got2xx /\ r.calls.tagWrite = 1 /\ ~r.wroteSentinels

C16_TagWriteFailureResubmits ==
    /\ (Answered /\ TagWriteFailed(last))
          => (/\ last.status = 502
              /\ last.alone => SENT \notin Range(last.tagsAtEnd))
    /\ \A r \in Records :
          (/\ NextDelivery(r) /\ r.prev.got2xx /\ r.prev.tagWrite = 1
           /\ r.prev.status = 502)
             => (/\ ~r.alreadySent
                 /\ PastShipping(r) => r.calls.shipSubmit = 1)

\* the order was submitted twice: the tag write of the first delivery
\* failed and the second delivery submitted again
C16_Witness ==
    /\ Answered /\ NextDelivery(last)
    /\ last.prev.got2xx /\ last.prev.tagWrite = 1 /\ last.prev.status = 502
    /\ last.calls.shipSubmit = 1 /\ last.got2xx /\ shipped2xx = 2

\* C15: the gate of part_000 excludes nobody.  An invocation that ran
\* while another was in flight and read the order unpaid and without the
\* sentinel goes through mark-paid and through the shipping submission
\* whatever the other invocation does: two deliveries can both submit.
SawNeither(r) ==
    /\ r.variant = "gql" /\ r.lookup = "order" /\ ~r.alone
    /\ ~r.alreadySent /\ ~r.alreadyPaid

Done200(r) == r.pc = "done" /\ r.status = 200 /\ r.full # "null"

C15_GateExcludesNobody ==
    \A r \in Records :
       SawNeither(r) =>
          /\ (r.pc \in {"fetchFull", "ship", "tagWrite"} \/ Done200(r))
                => (r.calls.markPaid = 1 /\ r.markOk)
          /\ ((r.pc = "tagWrite" \/ Done200(r)) /\ order.complete)
                => (r.calls.shipSubmit = 1 /\ r.got2xx)

\* two invocations in flight, both having read the order unpaid and
\* without the sentinel, both having called mark-paid and both having had a
\* shipping submission answered 2xx, before either wrote the sentinel
C15_Witness ==
    /\ \A i \in {1, 2} :
          /\ SawNeither(inv[i]) /\ inv[i].pc = "tagWrite"
          /\ inv[i].calls.markPaid = 1 /\ inv[i].calls.shipSubmit = 1
          /\ inv[i].got2xx
    /\ shipped2xx = 2 /\ SENT \notin Range(order.tags)

\* C17: every shipping submission is guarded by the gate.  A callback
\* invocation that submitted had read the order's tags without the
\* sentinel and, when it answered 200 after a 2xx, had written the
\* sentinel; the ORDERS_FULFILLED handler submits only after reading the
\* order's tags, only while the order lacks the sentinel, and after a 2xx
\* adds it.
GatedCallback(r) ==
    r.calls.shipSubmit = 1
       => (/\ r.calls.lookup = 1 /\ ~r.alreadySent
           /\ (r.pc = "done" /\ r.status = 200) => r.wroteSentinels)

GatedHook(h) ==
    h.submits >= 1
       => (/\ h.tagReads >= 1 /\ ~h.sentinelAtSubmit
           /\ h.got2xx => h.tagWrites >= 1)

C17_EverySubmissionIsGated ==
    (\A r \in Records : GatedCallback(r)) /\ GatedHook(hook)

\* a response that makes the loop go on: a redirect status with Location
Redirecting(res) == res.status \in RedirectStatuses /\ res.location # NoLocation

AllRedirecting(p) == \A k \in 1..Len(p.resps) : Redirecting(p.resps[k])

\* C18: a call never issues more than maxRedirects + 1 requests, and is
\* over once it has issued that many; against a server that answers every
\* POST with a redirect status and a Location it returns, after exactly
\* maxRedirects + 1 requests, the last redirect response.
C18_StopsAtMaxRedirects ==
    /\ Len(post.log) <= post.maxRedirects + 1
    /\ post.pc = "loop" => Len(post.log) <= post.maxRedirects
    /\ (post.pc \notin {"idle", "loop"} /\ AllRedirecting(post))
          => (/\ post.pc = "returned"
              /\ Len(post.log) = post.maxRedirects + 1
              /\ post.result = post.resps[Len(post.resps)])

\* the default bound used up: four requests, four redirects, the fourth
\* redirect returned
C18_Witness ==
    /\ post.pc = "returned" /\ post.maxRedirects = DefaultMaxRedirects
    /\ AllRedirecting(post) /\ Len(post.log) = DefaultMaxRedirects + 1
    /\ Redirecting(post.result)

\* C19: every request of a call is a POST carrying the headers and the
\* body of the call; the first goes to the URL of the call and each later
\* one to the Location of the previous response resolved against the URL
\* of the previous request.
C19_SamePostEveryHop ==
    \A k \in 1..Len(post.log) :
       /\ post.log[k].method = "POST"
       /\ post.log[k].headers = post.headers
       /\ post.log[k].body = post.body
       /\ post.log[k].url =
             IF k = 1 THEN post.url
             ELSE ResolveUrl(post.resps[k - 1].location, post.log[k - 1].url)

\* a 303 to another origin and then a relative Location: the third request
\* is a POST to the relative reference resolved on the other origin
C19_Witness ==
    /\ Len(post.log) = 3
    /\ post.resps[1].status = 303 /\ post.resps[1].location.kind = "abs"
    /\ post.resps[2].location.kind = "rel"
    /\ post.log[3].url = Url("https://alt.example", <<"next">>)
    /\ post.log[3].method = "POST" /\ post.log[3].body = post.body

\* C20: a response that is a redirect without Location, or whose status is
\* not one of 301, 302, 303, 307, 308, is the last response of the call
\* and is what the call returns; no request follows it.
Final(res) == res.status # 0 /\ ~Redirecting(res)

C20_NonRedirectReturnsAtOnce ==
    \A k \in 1..Len(post.resps) :
       Final(post.resps[k])
          => (/\ k = Len(post.resps) /\ Len(post.log) = k
              /\ post.pc = "returned" /\ post.result = post.resps[k])

\* a 3xx status outside the list, carrying a Location, returned after one
\* redirect was followed
C20_Witness ==
    /\ post.pc = "returned" /\ Len(post.log) = 2
    /\ post.result.status = 304 /\ post.result.location # NoLocation
    /\ post.maxRedirects > 1

\* C14: with every delivery answered other than 200 delivered again and
\* every collaborator call succeeding at some time, the order is in the end
\* paid, a shipping submission for it has been answered 2xx, and it carries
\* sent_to_postoffice.
Reconciled ==
    order.paid /\ shipped2xx >= 1 /\ SENT \in Range(order.tags)

C14_EventuallyReconciled == <>Reconciled

\* C21: for every maxRedirects >= 0 and every sequence of responses the
\* statement after the loop is never reached: the loop counter never
\* passes maxRedirects, and a call that is over without a rejected fetch
\* has returned the response it received last.  The same holds of the
\* results handed to sendToPostOffice.
C21_TooManyRedirectsUnreachable ==
    /\ post.pc # "tooMany"
    /\ post.attempt <= post.maxRedirects
    /\ (post.pc \notin {"idle", "loop", "threw"})
          => (post.pc = "returned" /\ post.result = post.resps[Len(post.resps)])
    /\ \A res \in PostResults : res.outcome # "tooMany"

\* with maxRedirects = 0 the only request is answered by a redirect with a
\* Location, and that response is returned from inside the loop
C21_Witness ==
    /\ post.pc = "returned" /\ post.maxRedirects = 0
    /\ Len(post.log) = 1 /\ Redirecting(post.result)

\* the signature carried by the body is the HMAC of its canonical string
Matches(body, secret) ==
    body.merchantSignature = Hmac(secret, SigningString(body))

\* C22: for every secret and body, verifyCallbackSignature returns true
\* iff merchantSignature equals the HMAC of
\* "merchantAccount;orderReference;normalizedAmount;currency", and after
\* the value of one signed field of an accepted body is changed it
\* returns false.
C22_TrueIffHmacMatches ==
    /\ ver.pc # "call"
          => (ver.result = "true" <=> Matches(ver.body, ver.secret))
    /\ (ver.pc = "altered" /\ ver.result = "true") => ver.result2 = "false"

\* C22 as the code has it: verification returns true iff the merchant
\* account, the order reference and the currency are non-empty and
\* merchantSignature equals the HMAC of the canonical string; after one
\* signed field of an accepted body is changed it returns false, except
\* that an amount replaced by one with the same normalized form is still
\* accepted.
NoEmptyField(body) ==
    body.merchantAccount # "" /\ body.orderReference # "" /\ body.currency # ""

SameCanonical(a, b) == SigningString(a) = SigningString(b)

C22_TrueIffFieldsAndHmacMatch ==
    /\ ver.pc # "call"
          => (ver.result = "true"
                <=> (NoEmptyField(ver.body) /\ Matches(ver.body, ver.secret)))
    /\ (ver.pc = "altered" /\ ver.result = "true")
          => /\ ver.field # "amount" => ver.result2 = "false"
             /\ ver.result2 = "true" <=> SameCanonical(ver.body, ver.altered)

\* an accepted body whose amount was changed to one with another
\* normalized form is rejected
C22_Witness ==
    /\ ver.pc = "altered" /\ ver.result = "true" /\ ver.field = "amount"
    /\ ~SameCanonical(ver.body, ver.altered) /\ ver.result2 = "false"

\* C23: normalizeAmount applied to its own result gives that result
\* again; two spellings of one number normalize to the same string, which
\* spells that number; 1500.00 gives "1500"; an amount that is no finite
\* number gives "0".
C23_NormalizeIsIdempotent ==
    /\ amt.pc \in {"twice", "equal"} => amt.twice = amt.once
    /\ amt.pc = "equal" => amt.yOnce = amt.once
    /\ (amt.pc \notin {"idle", "call"} /\ IsDecimalLiteral(amt.x))
          => (IsDecimalLiteral(amt.once) /\ NumberOf(amt.once) = NumberOf(amt.x))
    /\ (amt.pc \notin {"idle", "call"} /\ ~IsDecimalLiteral(amt.x))
          => amt.once = <<"0">>
    /\ (amt.pc \notin {"idle", "call"}
        /\ amt.x = <<"1", "5", "0", "0", ".", "0", "0">>)
          => Join(amt.once) = "1500"

\* 1500.00 and 1500 both gave "1500"
C23_Witness ==
    /\ amt.pc = "equal"
    /\ amt.x = <<"1", "5", "0", "0", ".", "0", "0">>
    /\ amt.y = <<"1", "5", "0", "0">>
    /\ Join(amt.once) = "1500" /\ Join(amt.yOnce) = "1500"

\* ------------------------------------------------ payment-link issuance
\* the authenticated event is of another topic, or none of its gateway
\* names, lower-cased, is in the handler's allow-list
NotEligible(l) ==
    /\ l.authOk
    /\ \/ l.ev.topic # "ORDERS_CREATE"
       \/ \A k \in 1..Len(l.ev.gateways) :
             ToLowerCase(l.ev.gateways[k]) \notin AllowList(l.variant)

\* C24: an order-created invocation whose topic is not ORDERS_CREATE, or
\* whose order has no gateway name in the manual allow-list, has ended with
\* status 200 and an empty body and has made no dispatcher call, no order
\* read or write and no email, whatever configuration is missing.
C24_IneligibleEventDoesNothing ==
    NotEligible(link) =>
        /\ link.pc = "done"
        /\ link.status = 200
        /\ link.body = ""
        /\ link.calls = NoLinkCalls

\* an ORDERS_CREATE event paid through shopify_payments alone was
\* acknowledged while configuration was missing
C24_Witness ==
    /\ NotEligible(link)
    /\ link.ev.topic = "ORDERS_CREATE"
    /\ link.ev.gateways = <<"shopify_payments">>
    /\ link.missing # {}
    /\ link.status = 200

\* C25: an invocation that found procard_link_sent on the order makes no
\* dispatcher call, no order update and sends no email.
C25_RepeatIsSkipped ==
    link.hadTag => link.calls = NoLinkCalls

\* the dispatcher request was rejected, answered outside 2xx, or answered
\* with a result other than 0 or without url
DispatcherFailed(l) == l.dispatch \in {"reject", "non2xx", "rejected"}

\* C26: after a failed dispatcher call the invocation ends with status 200,
\* without order update and without email.
C26_DispatcherFailureIsAcknowledged ==
    DispatcherFailed(link) =>
        /\ link.status = 200
        /\ link.calls.orderRead = 0
        /\ link.calls.orderWrite = 0
        /\ link.calls.email = 0

OtherNotes(notes) == SelectSeq(notes, LAMBDA a : a.name # URLNOTE)

UrlNotes(notes) == SelectSeq(notes, LAMBDA a : a.name = URLNOTE)

\* C27: once the order update of an invocation succeeded, the order's tag
\* set is the one it replaced united with procard_link_sent, the earlier
\* tags keep their order, there is exactly one procard_payment_url note
\* attribute, holding the returned url, and the other note attributes are
\* the ones it replaced.
C27_UpdateAppendsSentinel ==
    link.persisted =>
        /\ Range(link.order.tags) = Range(link.before.tags) \cup {LINK}
        /\ SelectSeq(link.order.tags, LAMBDA t : t \in Range(link.before.tags))
             = link.before.tags
        /\ UrlNotes(link.order.notes) = <<[name |-> URLNOTE, value |-> link.url]>>
        /\ OtherNotes(link.order.notes) = OtherNotes(link.before.notes)

\* the order carries the sentinel and the url of this invocation
Persisted(l) ==
    /\ LINK \in Range(l.order.tags)
    /\ [name |-> URLNOTE, value |-> l.url] \in Range(l.order.notes)

\* C28: an email is attempted only after the order update succeeded; an
\* invocation whose order update failed neither sent nor is about to send
\* an email; after a failed email the order still carries the sentinel and
\* the url.
C28_PersistBeforeEmail ==
    /\ (link.pc = "email" \/ link.calls.email > 0) =>
            link.persisted /\ Persisted(link)
    /\ link.persistFailed => link.pc = "done" /\ link.calls.email = 0
    /\ link.emailOutcome = "failed" => Persisted(link)

\* the invoice email failed after the order update: 502, order kept
C28_Witness ==
    /\ link.emailOutcome = "failed"
    /\ link.status = 502
    /\ link.persisted
    /\ "vip" \in Range(link.order.tags)

\* an authenticated ORDERS_CREATE event of a manual gateway
Eligible(l) ==
    /\ l.authOk
    /\ l.ev.topic = "ORDERS_CREATE"
    /\ \E k \in 1..Len(l.ev.gateways) :
          ToLowerCase(l.ev.gateways[k]) \in AllowList(l.variant)

Union(had, extraTags) ==
    had \o SelectSeq(extraTags, LAMBDA t : t \notin Range(had))

\* C29: when an application of tagOrder has returned, the tags string on
\* the order and the list returned both spell the tags the order had
\* followed by the extraTags it lacked, without duplicates; and an
\* application with the extraTags of the application before it left the
\* order's tags as they were.
C29_TagOrderIsSetUnion ==
    tagop.pc = "done" =>
        /\ tagop.tags = JoinTags(Union(tagop.had, tagop.extra))
        /\ tagop.returned = Union(tagop.had, tagop.extra)
        /\ Range(tagop.returned) = Range(tagop.had) \cup Range(tagop.extra)
        /\ Cardinality(Range(tagop.returned)) = Len(tagop.returned)
        /\ (tagop.n >= 2 /\ tagop.extra = tagop.prev.extra) =>
                tagop.tags = tagop.prev.tags

\* sent_to_postoffice was added twice to an order tagged vip and
\* "gift wrap"
C29_Witness ==
    /\ tagop.pc = "done"
    /\ tagop.n = 2
    /\ tagop.extra = <<SENT>>
    /\ tagop.prev.extra = <<SENT>>
    /\ tagop.returned = <<"vip", "gift wrap", SENT>>

\* ------------------------------------------- order of the callback steps
\* C31: an order carries paid_procard only if a shipping submission for it
\* was answered 2xx (no order starts out with the tag, and the callback
\* handlers are its only writers).
C31_PaidTagOnlyAfterShipping ==
    PAIDTAG \in Range(order.tags) => shipped2xx > 0

\* the invocation is inside the shipping step or has submitted
InShipping(r) ==
    r.pc \in {"fetchFull", "ship", "tagWrite"} \/ r.calls.shipSubmit > 0

\* C32: an invocation of the handler of part_000 that has entered the
\* shipping step or submitted the order saw the order paid at lookup, or
\* called mark-paid once and had it return without error; an invocation
\* whose mark-paid failed has submitted nothing.
C32_ShippingOnlyAfterPayment ==
    \A r \in Records :
        r.variant = "gql" =>
            /\ InShipping(r) =>
                   \/ r.alreadyPaid /\ r.calls.markPaid = 0
                   \/ ~r.alreadyPaid /\ r.calls.markPaid = 1 /\ r.markOk
            /\ (r.calls.markPaid = 1 /\ ~r.markOk) => r.calls.shipSubmit = 0

\* mark-paid succeeded for an unpaid order, then the submission failed:
\* the order is paid and not shipped
C32_Witness ==
    /\ Answered /\ last.variant = "gql"
    /\ ~last.alreadyPaid /\ last.markOk
    /\ last.calls.shipSubmit = 1 /\ ~last.got2xx
    /\ order.paid /\ SENT \notin Range(order.tags)

\* C34: no tag is ever removed from the order: the tags the order carried
\* when the most recent answer was given are still on it.
C34_TagsAreNeverLost ==
    Answered => Range(last.tagsAtEnd) \subseteq Range(order.tags)

\* ------------------------------------------------ getAdminAccessToken
\* the call found a token cached and its own time before the expiry (less
\* the buffer of the expires_in copy)
FoundFresh(c) ==
    /\ c.saw.token # 0
    /\ c.now < c.saw.expiresAt
               - (IF tok.variant = "expiresIn" THEN BufferSeconds ELSE 0)

\* C33: a call of getAdminAccessToken (with its configuration present)
\* that found a cached token before its expiry made no token request and
\* returned that token; any other call made exactly one token request;
\* and a call whose request succeeded returned the new token and left it
\* cached with an expiry counted from the time that call started.
C33_TokenIsCachedUntilExpiry ==
    \A i \in Callers :
        LET c == tok.call[i] IN
        (c.pc # "idle" /\ c.outcome # "threwConfig") =>
            /\ FoundFresh(c) =>
                   /\ c.pc = "done" /\ c.outcome = "cached"
                   /\ c.requests = 0
                   /\ c.returned = c.saw.token
            /\ ~FoundFresh(c) => c.requests = 1
            /\ c.outcome = "fetched" =>
                   /\ c.returned = c.reqId /\ c.returned # c.saw.token
                   /\ c.cacheAfter.token = c.returned
                   /\ c.cacheAfter.expiresAt =
                         c.now + (IF tok.variant = "fixed" THEN FixedLifetime
                                  ELSE IF c.expiresIn = NotFinite
                                       THEN DefaultLifetime
                                       ELSE c.expiresIn)

\* a call after the expiry of the first token fetched a second one while
\* the clock moved on between its start and the response
C33_Witness ==
    \E i \in Callers :
        LET c == tok.call[i] IN
        /\ c.outcome = "fetched"
        /\ c.saw.token = 1 /\ c.now >= c.saw.expiresAt
        /\ c.returned = 2
        /\ tok.now > c.now
        /\ tok.cache = c.cacheAfter

\* ------------------------------------------------ redirects in shipping
\* the call of postJsonWithRedirects returned a redirect response
RedirectReturned ==
    post.pc = "returned" /\ post.result.status \in RedirectStatuses

\* the most recent invocation has answered, and the call of
\* postJsonWithRedirects on record is the one it made
LastSubmitted ==
    inv[1].pc = "idle" /\ Answered /\ last.calls.shipSubmit = 1

\* C35: an invocation whose call of postJsonWithRedirects returned a
\* redirect response (the bound was reached, or Location was absent) has
\* answered 502 without writing tags, and the order does not carry
\* sent_to_postoffice; no invocation goes on to the tag write after such a
\* response.
C35_RedirectReturnedIsFailure ==
    /\ (LastSubmitted /\ RedirectReturned) =>
           /\ last.status = 502
           /\ ~last.got2xx
           /\ last.calls.tagWrite = 0
           /\ SENT \notin Range(order.tags)
    /\ (inv[1].pc = "tagWrite" /\ inv[1].calls.shipSubmit = 1) =>
           ~RedirectReturned

\* the shipping service redirected every request up to the bound
C35_Witness ==
    /\ LastSubmitted /\ RedirectReturned
    /\ Len(post.resps) = DefaultMaxRedirects + 1
    /\ \A k \in 1..Len(post.resps) : post.resps[k].location # NoLocation
    /\ last.status = 502

====
